---- MODULE Spec2Model ----
(***************************************************************************)
(* Verification model of SubVision's video-processing concurrency engine.  *)
(*                                                                         *)
(*   Spec        ProcessManager (backend/ocr/process_manager.py): caller   *)
(*               threads running start_process / stop_process against the  *)
(*               worker registry, the registry lock and the lazily created *)
(*               per-session locks; OCR workers at life-cycle granularity. *)
(*   SpecWorker  one OCRWorker (backend/core/worker.py): run(), the        *)
(*               producer thread, the frame queue and stop().              *)
(*   SpecRender  the render endpoints (backend/api/routers/processing.py)  *)
(*               and BlurManager.apply_blur_task                           *)
(*               (backend/media/blur_manager.py) on the asyncio loop.      *)
(*   SpecBus     event delivery from a worker thread to the client's       *)
(*               WebSocket (processing.py, api/websockets/manager.py).     *)
(*   SpecAgg     SubtitleAggregator (core/subtitle_aggregator.py).         *)
(*   SpecSrt     the SRT writer (worker.py) and parse_srt                  *)
(*               (backend/core/srt_parser.py).                             *)
(*   SpecUpload  chunked upload (backend/media/video/upload.py and         *)
(*               backend/api/routers/video.py).                            *)
(*   SpecEngine  the PaddleWrapper engines (backend/ocr/engine.py).        *)
(*   SpecRoi     calculate_blur_roi (backend/core/geometry.py).            *)
(*   SpecBacklog one OCRWorker whose frame queue starts nearly full.       *)
(*   SpecBatch   the consumer's batching and OCRWorker._process_batch.     *)
(*   SpecLive    Spec with the fairness of threads and locks.              *)
(*   SpecUploadConc  the chunks of one upload in concurrent requests.      *)
(*   SpecBacklogLive SpecBacklog with a producer thread that keeps running.*)
(*   SpecPlan    the render plan of apply_blur_task (frame_blur_map).      *)
(*   SpecPipeline the reader, processor and writer threads of one render.  *)
(***************************************************************************)
EXTENDS Integers, Sequences, FiniteSets, TLC

VARIABLES
    \* ---- ProcessManager (Spec) ----
    workers_registry,   \* session -> worker id, or None
    session_locks,      \* session -> lock id, or None (created lazily)
    registry_lock,      \* caller holding _registry_lock, or None
    lock_holder,        \* lock id -> caller holding that session lock, or None
    cpc,                \* caller -> position in start_process / stop_process
    cop,                \* caller -> "start" | "stop" | "none"
    csess,              \* caller -> session_id argument
    clock,              \* caller -> lock id returned by _get_session_lock
    cworker,            \* caller -> worker popped by _stop_worker_sync, or None
    cnew,               \* caller -> worker created by start_process, or None
    cactive,            \* caller -> has_active_worker
    cattempt,           \* caller -> join attempts made in _stop_worker_sync
    wstatus,            \* worker -> "none" | "created" | "running" | "saving" | "dead"
    wstop,              \* worker -> stop() was called / finally ran (_stop_event)
    wsess,              \* worker -> session it was created for
    srt_exists,         \* session -> the session's output .srt exists on disk
    \* ---- one OCRWorker (SpecWorker) ----
    kpc,                \* position of run() (the consumer / worker thread)
    is_running,         \* OCRWorker.is_running
    stop_event,         \* OCRWorker._stop_event
    frame_queue,        \* OCRWorker.frame_queue (frame indexes and SENTINEL)
    kitem,              \* run(): item
    pending_items,      \* run(): pending_items (= valid_frames: every frame has an image)
    ppc,                \* position of _producer_loop
    pframe,             \* next frame index the reader yields
    producer_error,     \* OCRWorker.producer_error is set
    vstate,             \* VideoProvider: "closed" | "open" | "released"
    total_frames,       \* frames the reader yields
    finish_events,      \* success flags of the finish events published, in order
    event_after_finish, \* an event was published after a finish event
    srt_written,        \* _save_to_file wrote the output file
    spc,                \* position of the manager's worker.stop() call
    stop_before_finish, \* stop() began while no finish event had been published
    idle_time,          \* seconds since last_activity_time, as the watchdog reads them
    since_receipt,      \* history: seconds since the last item received or batch flushed
    timed_out,          \* history: the watchdog's TimeoutError was raised
    \* ---- render endpoints and BlurManager (SpecRender) ----
    render_registry,    \* app.state.render_registry: client_id -> render job, or None
    render,             \* render job -> its BlurManager, its run_render_task and threads
    temp_exists,        \* the intermediate "<base>_temp<ext>" video exists on disk
    out_exists,         \* a file exists at output_path
    \* ---- event bus: _emit, the asyncio loop, ConnectionManager (SpecBus) ----
    active_connections, \* ConnectionManager.active_connections: client_id -> socket, or None
    sock_client,        \* socket -> client_id of its /ws/{client_id} endpoint, or "none"
    sock_open,          \* socket -> its endpoint coroutine is still in the receive loop
    bus_submitted,      \* events the worker handed to _emit, in call order
    bus_ready,          \* the loop's FIFO of ready callbacks and task steps
    bus_waiting,        \* send_json tasks suspended inside websocket.send_json
    bus_wire,           \* socket -> events written on that socket, in write order
    w_current,          \* last `current` the worker reported through the progress callback
    w_subs,             \* len(aggregator.srt_data): subtitles committed so far
    w_finished,         \* the worker has called the finish callback
    send_count,         \* flips at every step of a send_json coroutine
    last_send,          \* what the latest of them did
    \* ---- SubtitleAggregator (SpecAgg) ----
    srt_data,           \* SubtitleAggregator.srt_data: the committed items
    active_event,       \* SubtitleAggregator.active_event, or NoEvent
    agg_t,              \* timestamp of the latest add_result call (0 before the first)
    agg_calls,          \* add_result calls made
    agg_first,          \* the first call's (text, conf, timestamp) while agg_uniform
    agg_uniform,        \* every call so far passed the first call's text and conf
    agg_final,          \* finalize() has returned
    agg_in,             \* history: <<text, conf>> of the last add_result call, <<>> before
    agg_run,            \* history: invalid tuples fed in a row to the open event
    agg_valid_t,        \* history: timestamp of the open event's last valid tuple, or -1
    agg_merged,         \* history: the valid <<text, conf>> merged into the open event
    agg_emitted,        \* history: the items given to on_new_subtitle, in call order
    agg_saved,          \* the call of _save_to_file and the list handed to it
    \* ---- SRT writer and parser (SpecSrt) ----
    srt_items,          \* the committed list handed to _save_to_file
    srt_file,           \* the blocks written to the SRT file
    srt_parsed,         \* what parse_srt returns for that file
    srt_pc,             \* "idle" | "items" | "saved" | "failed" | "parsed"
    \* ---- chunked upload (SpecUpload) ----
    up_split,           \* the byte stream as the client split it: chunk i at up_split[i + 1]
    up_dir,             \* the upload's chunk directory exists
    up_chunks,          \* chunk_index -> content of "<chunk_index>.chunk", or NoChunk
    up_final,           \* content of the assembled file, or NoFile
    up_pc,              \* position of the upload_video handler
    up_resent,          \* some index was saved more than once
    up_beyond,          \* some index >= total_chunks was saved
    \* ---- PaddleWrapper engines (SpecEngine) ----
    engines,            \* _engines: the languages for which a PaddleWrapper exists
    engine_lock,        \* thread holding _engine_lock, or None
    inference_lock,     \* language -> thread holding that engine's _inference_lock, or None
    epc,                \* worker thread -> position in get_paddle_engine / predict_batch
    elang,              \* worker thread -> the `langs` parameter of its job
    eframes,            \* worker thread -> frames of its batch still to be inferred
    \* ---- calculate_blur_roi (SpecRoi) ----
    roi_args,           \* the call's arguments: text, width, height and the settings
    roi_result,         \* the tuple (x, y, w, h) returned, or <<>> before the call
    roi_pc,             \* "off" | "call" | "returned"
    \* ---- batching in OCRWorker.run / _process_batch (SpecBatch) ----
    b_pc,               \* "off" | "loop" | "done": the consumer's main loop
    b_arrived,          \* number of work items received from the queue so far
    b_pending,          \* pending_items: records [id, kind]
    b_valid,            \* valid_frames: the images (named by their item's id) to infer
    b_last,             \* self.last_ocr_result
    b_out,              \* history: the (item, result) pairs given to aggregator.add_result
    b_flush,            \* history: the last flush, its items and its predict_batch calls
    \* ---- concurrent upload requests (SpecUploadConc) ----
    cu_dir,             \* the upload's chunk directory exists
    cu_chunks,          \* chunk_index -> content of "<chunk_index>.chunk", or NoChunk
    cu_final,           \* content of the final file, or NoFile
    cu_gen,             \* number of times the final file was created anew
    cu_req,             \* request -> position of its upload_video handler and its threads
    cu_observed,        \* history: the operations that took a partly written chunk for present
    \* ---- the frame pipeline of one render (SpecPlan, SpecPipeline) ----
    pl_in,              \* subtitles, fps, total_frames and the frames the capture delivers
    frame_blur_map,     \* frame index -> ROI: the render plan
    read_queue,         \* (frame_idx, frame) items and the end marker, reader to processor
    write_queue,        \* frames and the end marker, processor to writer
    exception_queue,    \* the threads that reported an exception
    task_stop,          \* the pipeline's own stop event
    pl_stop_event,      \* BlurManager._stop_event, set by stop()
    pl_pc,              \* positions of apply_blur_task and of its three threads
    frame_idx,          \* the reader's counter
    pl_item,            \* what the reader and the processor hold between get/read and put
    pl_written          \* history: the frames handed to writer.write, in order

pmVars == <<workers_registry, session_locks, registry_lock, lock_holder, cpc, cop,
            csess, clock, cworker, cnew, cactive, cattempt, wstatus, wstop,
            wsess, srt_exists>>

wkVars == <<kpc, is_running, stop_event, frame_queue, kitem, pending_items, ppc, pframe,
            producer_error, vstate, total_frames, finish_events, event_after_finish,
            srt_written, spc, stop_before_finish, idle_time, since_receipt, timed_out>>

rdVars == <<render_registry, render, temp_exists, out_exists>>

busVars == <<active_connections, sock_client, sock_open, bus_submitted, bus_ready,
             bus_waiting, bus_wire, w_current, w_subs, w_finished, send_count, last_send>>

aggVars == <<srt_data, active_event, agg_t, agg_calls, agg_first, agg_uniform, agg_final,
            agg_in, agg_run, agg_valid_t, agg_merged, agg_emitted, agg_saved>>

srtVars == <<srt_items, srt_file, srt_parsed, srt_pc>>

upVars == <<up_split, up_dir, up_chunks, up_final, up_pc, up_resent, up_beyond>>

engVars == <<engines, engine_lock, inference_lock, epc, elang, eframes>>

roiVars == <<roi_args, roi_result, roi_pc>>

batVars == <<b_pc, b_arrived, b_pending, b_valid, b_last, b_out, b_flush>>

cuVars == <<cu_dir, cu_chunks, cu_final, cu_gen, cu_req, cu_observed>>

plVars == <<pl_in, frame_blur_map, read_queue, write_queue, exception_queue, task_stop, pl_stop_event, pl_pc, frame_idx, pl_item, pl_written>>

vars == <<pmVars, wkVars, rdVars, busVars, aggVars, srtVars, upVars, engVars, roiVars, batVars, cuVars, plVars>>

\* the variables a ProcessManager step leaves alone
notPM == <<wkVars, rdVars, busVars, aggVars, srtVars, upVars, engVars, roiVars, batVars, cuVars, plVars>>

\* the variables an OCRWorker step leaves alone
notWK == <<pmVars, rdVars, busVars, aggVars, srtVars, upVars, engVars, roiVars, batVars, cuVars, plVars>>

\* the variables a step of the render endpoints leaves alone
notRD == <<pmVars, wkVars, busVars, aggVars, srtVars, upVars, engVars, roiVars, batVars, cuVars, plVars>>

\* the variables a step of the event bus leaves alone
notBus == <<pmVars, wkVars, rdVars, aggVars, srtVars, upVars, engVars, roiVars, batVars, cuVars, plVars>>

\* the variables a SubtitleAggregator call leaves alone
notAgg == <<pmVars, wkVars, rdVars, busVars, srtVars, upVars, engVars, roiVars, batVars, cuVars, plVars>>

\* the variables the SRT writer and parser leave alone
notSrt == <<pmVars, wkVars, rdVars, busVars, aggVars, upVars, engVars, roiVars, batVars, cuVars, plVars>>

\* the variables an upload request leaves alone
notUp == <<pmVars, wkVars, rdVars, busVars, aggVars, srtVars, engVars, roiVars, batVars, cuVars, plVars>>

\* the variables a step of an engine user leaves alone
notEng == <<pmVars, wkVars, rdVars, busVars, aggVars, srtVars, upVars, roiVars, batVars, cuVars, plVars>>

\* the variables a call of calculate_blur_roi leaves alone
notRoi == <<pmVars, wkVars, rdVars, busVars, aggVars, srtVars, upVars, engVars, batVars, cuVars, plVars>>

\* the variables a loop iteration of the batching leaves alone
notBatch == <<pmVars, wkVars, rdVars, busVars, aggVars, srtVars, upVars, engVars, roiVars, cuVars, plVars>>

\* everything but the concurrent upload
notCu == <<pmVars, wkVars, rdVars, busVars, aggVars, srtVars, upVars, engVars, roiVars, batVars, plVars>>

\* the variables a step of the frame pipeline leaves alone
notPipe == <<pmVars, wkVars, rdVars, busVars, aggVars, srtVars, upVars, engVars, roiVars, batVars, cuVars>>

\* ---------------------------------------------------------------- bounds
\* OCR workers constructed in one run of Spec
MaxWorkers == 2
\* frames of the video an OCR worker reads
MaxFrames == 4
\* render requests accepted in one run of SpecRender
MaxRenders == 2
\* events a worker publishes before its finish event
MaxEmits == 2
\* WebSocket connections accepted in one run of SpecBus
MaxSockets == 2
\* add_result calls made on one SubtitleAggregator
MaxResults == 5
\* the gap_tolerance argument the SubtitleAggregator is constructed with
gap_tolerance == 2
\* items in a committed list written to an SRT file
MaxItems == 2
\* chunks a client splits an upload into
MaxChunks == 3

\* work items received by the consumer in the batching model
MaxArrivals == 6
\* seconds by which the worker's clock advances in one step
ClockStep == 15
\* concurrent upload requests, one per chunk of the upload
MaxRequests == 2

None == 0
Sessions == {"s1", "s2"}
\* two request threads call into the manager concurrently
Callers == {1, 2}
Workers == 1..MaxWorkers
LockIds == 1..Cardinality(Sessions)

\* process_manager.py:117  max_attempts = 3
max_attempts == 3

\* ======================================================================
\*  ProcessManager                      backend/ocr/process_manager.py
\* ======================================================================

\* threading.Thread.is_alive(): started and run() has not returned
IsAlive(w) == wstatus[w] \in {"running", "saving"}

Created == {w \in Workers : wstatus[w] # "none"}

\* callers inside start_process that have not yet constructed their worker
PendingStarts == {c \in Callers : cop[c] = "start" /\ cnew[c] = None}

\* process_manager.py:32-33  a missing session lock is created, one per session
UsedLocks == {session_locks[s] : s \in Sessions} \ {None}

SharedLockOf(s) == IF UsedLocks = {} THEN 1 ELSE CHOOSE l \in UsedLocks : TRUE

NewLockOf(s) == CHOOSE l \in LockIds \ UsedLocks : TRUE

\* process_manager.py:57   has_active_worker = session_id in self.workers_registry
NoActiveWorker(s) == FALSE

HasActiveWorker(s) == workers_registry[s] # None

\* a with-block that is left with the registry lock still held
RegistryKept(c) == c

\* process_manager.py:31-34  leaving "with self._registry_lock:" releases the lock
RegistryReleased(c) == None

\* process_manager.py:120-123  for attempt in range(3): join(2.0); break when dead
JoinUntilDead(w, n) == ~IsAlive(w)

JoinLoopExit(w, n) == ~IsAlive(w) \/ n >= max_attempts

InitPM ==
    /\ workers_registry = [s \in Sessions |-> None]
    /\ session_locks = [s \in Sessions |-> None]
    /\ registry_lock = None
    /\ lock_holder = [l \in LockIds |-> None]
    /\ cpc = [c \in Callers |-> "idle"]
    /\ cop = [c \in Callers |-> "none"]
    /\ csess = [c \in Callers |-> "s1"]
    /\ clock = [c \in Callers |-> None]
    /\ cworker = [c \in Callers |-> None]
    /\ cnew = [c \in Callers |-> None]
    /\ cactive = [c \in Callers |-> FALSE]
    /\ cattempt = [c \in Callers |-> 0]
    /\ wstatus = [w \in Workers |-> "none"]
    /\ wstop = [w \in Workers |-> FALSE]
    /\ wsess = [w \in Workers |-> "s1"]
    /\ srt_exists = [s \in Sessions |-> FALSE]

\* a request thread enters start_process(session_id, ...) or stop_process(session_id)
Call(c) ==
    /\ cpc[c] = "idle"
    /\ \E op \in {"start", "stop"}, s \in Sessions :
          /\ op = "start" =>
                Cardinality(Created) + Cardinality(PendingStarts) < MaxWorkers
          /\ cop' = [cop EXCEPT ![c] = op]
          /\ csess' = [csess EXCEPT ![c] = s]
    /\ cpc' = [cpc EXCEPT ![c] = "gsl_acq"]
    /\ UNCHANGED <<workers_registry, session_locks, registry_lock, lock_holder, clock,
                   cworker, cnew, cactive, cattempt, wstatus, wstop, wsess, srt_exists>>
    /\ UNCHANGED notPM

\* "with self._registry_lock:" entered at position `at`, continuing at `to`
AcquireRegistry(c, at, to) ==
    /\ cpc[c] = at
    /\ registry_lock = None
    /\ registry_lock' = c
    /\ cpc' = [cpc EXCEPT ![c] = to]
    /\ UNCHANGED <<workers_registry, session_locks, lock_holder, cop, csess, clock,
                   cworker, cnew, cactive, cattempt, wstatus, wstop, wsess, srt_exists>>
    /\ UNCHANGED notPM

GslAcquire(c) == AcquireRegistry(c, "gsl_acq", "gsl_body")

\* _get_session_lock body: create the lock if missing, return it, leave the with-block
GetSessionLock(c) ==
    /\ cpc[c] = "gsl_body"
    /\ registry_lock = c
    /\ LET s == csess[c]
           l == IF session_locks[s] = None THEN NewLockOf(s) ELSE session_locks[s]
       IN /\ session_locks' = [session_locks EXCEPT ![s] = l]
          /\ clock' = [clock EXCEPT ![c] = l]
    /\ registry_lock' = RegistryReleased(c)
    /\ cpc' = [cpc EXCEPT ![c] = "acq_session"]
    /\ UNCHANGED <<workers_registry, lock_holder, cop, csess, cworker, cnew, cactive,
                   cattempt, wstatus, wstop, wsess, srt_exists>>
    /\ UNCHANGED notPM

\* "with session_lock:" in start_process (line 55) and stop_process (line 103)
AcquireSession(c) ==
    /\ cpc[c] = "acq_session"
    /\ lock_holder[clock[c]] = None
    /\ lock_holder' = [lock_holder EXCEPT ![clock[c]] = c]
    /\ cpc' = [cpc EXCEPT ![c] = IF cop[c] = "start" THEN "sp_check_acq" ELSE "sw_pop_acq"]
    /\ UNCHANGED <<workers_registry, session_locks, registry_lock, cop, csess, clock,
                   cworker, cnew, cactive, cattempt, wstatus, wstop, wsess, srt_exists>>
    /\ UNCHANGED notPM

SpCheckAcquire(c) == AcquireRegistry(c, "sp_check_acq", "sp_check")

\* start_process lines 56-60
SpCheck(c) ==
    /\ cpc[c] = "sp_check"
    /\ registry_lock = c
    /\ cactive' = [cactive EXCEPT ![c] = HasActiveWorker(csess[c])]
    /\ registry_lock' = None
    /\ cpc' = [cpc EXCEPT ![c] = IF cactive'[c] THEN "sw_pop_acq" ELSE "sp_remove"]
    /\ UNCHANGED <<workers_registry, session_locks, lock_holder, cop, csess, clock,
                   cworker, cnew, cattempt, wstatus, wstop, wsess, srt_exists>>
    /\ UNCHANGED notPM

SwPopAcquire(c) == AcquireRegistry(c, "sw_pop_acq", "sw_pop")

\* _stop_worker_sync lines 110-113
SwPop(c) ==
    /\ cpc[c] = "sw_pop"
    /\ registry_lock = c
    /\ cworker' = [cworker EXCEPT ![c] = workers_registry[csess[c]]]
    /\ workers_registry' = [workers_registry EXCEPT ![csess[c]] = None]
    /\ registry_lock' = None
    /\ cpc' = [cpc EXCEPT ![c] = IF cworker'[c] # None THEN "sw_alive" ELSE "sw_ret"]
    /\ UNCHANGED <<session_locks, lock_holder, cop, csess, clock, cnew, cactive,
                   cattempt, wstatus, wstop, wsess, srt_exists>>
    /\ UNCHANGED notPM

\* _stop_worker_sync line 114
SwAlive(c) ==
    /\ cpc[c] = "sw_alive"
    /\ cpc' = [cpc EXCEPT ![c] = IF IsAlive(cworker[c]) THEN "sw_stop" ELSE "sw_ret"]
    /\ UNCHANGED <<workers_registry, session_locks, registry_lock, lock_holder, cop,
                   csess, clock, cworker, cnew, cactive, cattempt, wstatus, wstop, wsess,
                   srt_exists>>
    /\ UNCHANGED notPM

\* _stop_worker_sync lines 115-118: worker.stop()
SwStop(c) ==
    /\ cpc[c] = "sw_stop"
    /\ wstop' = [wstop EXCEPT ![cworker[c]] = TRUE]
    /\ cattempt' = [cattempt EXCEPT ![c] = 0]
    /\ cpc' = [cpc EXCEPT ![c] = "sw_join"]
    /\ UNCHANGED <<workers_registry, session_locks, registry_lock, lock_holder, cop,
                   csess, clock, cworker, cnew, cactive, wstatus, wsess, srt_exists>>
    /\ UNCHANGED notPM

\* _stop_worker_sync lines 120-123: one timed join, then the is_alive test
SwJoin(c) ==
    /\ cpc[c] = "sw_join"
    /\ cattempt' = [cattempt EXCEPT ![c] = @ + 1]
    /\ cpc' = [cpc EXCEPT ![c] =
                 IF JoinLoopExit(cworker[c], cattempt'[c]) THEN "sw_ret" ELSE "sw_join"]
    /\ UNCHANGED <<workers_registry, session_locks, registry_lock, lock_holder, cop,
                   csess, clock, cworker, cnew, cactive, wstatus, wstop, wsess, srt_exists>>
    /\ UNCHANGED notPM

\* _stop_worker_sync lines 125-134: log when still alive, abandon the reference, return
SwReturn(c) ==
    /\ cpc[c] = "sw_ret"
    /\ cworker' = [cworker EXCEPT ![c] = None]
    /\ cattempt' = [cattempt EXCEPT ![c] = 0]
    /\ cpc' = [cpc EXCEPT ![c] = IF cop[c] = "start" THEN "sp_remove" ELSE "rel_session"]
    /\ UNCHANGED <<workers_registry, session_locks, registry_lock, lock_holder, cop,
                   csess, clock, cnew, cactive, wstatus, wstop, wsess, srt_exists>>
    /\ UNCHANGED notPM

\* start_process lines 69-73: remove a previous output; an OSError is swallowed
SpRemove(c) ==
    /\ cpc[c] = "sp_remove"
    /\ \E removed \in BOOLEAN :
          srt_exists' = [srt_exists EXCEPT ![csess[c]] = @ /\ ~removed]
    /\ cpc' = [cpc EXCEPT ![c] = "sp_create"]
    /\ UNCHANGED <<workers_registry, session_locks, registry_lock, lock_holder, cop,
                   csess, clock, cworker, cnew, cactive, cattempt, wstatus, wstop, wsess>>
    /\ UNCHANGED notPM

\* start_process line 89: worker = OCRWorker(params, callbacks)
SpCreate(c) ==
    /\ cpc[c] = "sp_create"
    /\ LET w == Cardinality(Created) + 1
       IN /\ cnew' = [cnew EXCEPT ![c] = w]
          /\ wstatus' = [wstatus EXCEPT ![w] = "created"]
          /\ wsess' = [wsess EXCEPT ![w] = csess[c]]
    /\ cpc' = [cpc EXCEPT ![c] = "sp_reg_acq"]
    /\ UNCHANGED <<workers_registry, session_locks, registry_lock, lock_holder, cop,
                   csess, clock, cworker, cactive, cattempt, wstop, srt_exists>>
    /\ UNCHANGED notPM

SpRegisterAcquire(c) == AcquireRegistry(c, "sp_reg_acq", "sp_reg")

\* start_process lines 91-92
SpRegister(c) ==
    /\ cpc[c] = "sp_reg"
    /\ registry_lock = c
    /\ workers_registry' = [workers_registry EXCEPT ![csess[c]] = cnew[c]]
    /\ registry_lock' = None
    /\ cpc' = [cpc EXCEPT ![c] = "sp_start"]
    /\ UNCHANGED <<session_locks, lock_holder, cop, csess, clock, cworker, cnew,
                   cactive, cattempt, wstatus, wstop, wsess, srt_exists>>
    /\ UNCHANGED notPM

\* start_process line 94: worker.start()
SpStart(c) ==
    /\ cpc[c] = "sp_start"
    /\ wstatus' = [wstatus EXCEPT ![cnew[c]] = "running"]
    /\ cpc' = [cpc EXCEPT ![c] = "rel_session"]
    /\ UNCHANGED <<workers_registry, session_locks, registry_lock, lock_holder, cop,
                   csess, clock, cworker, cnew, cactive, cattempt, wstop, wsess, srt_exists>>
    /\ UNCHANGED notPM

\* leaving "with session_lock:" (start_process line 96, stop_process line 104)
ReleaseSession(c) ==
    /\ cpc[c] = "rel_session"
    /\ lock_holder' = [lock_holder EXCEPT ![clock[c]] = None]
    /\ cpc' = [cpc EXCEPT ![c] = "idle"]
    /\ cop' = [cop EXCEPT ![c] = "none"]
    /\ clock' = [clock EXCEPT ![c] = None]
    /\ cnew' = [cnew EXCEPT ![c] = None]
    /\ cactive' = [cactive EXCEPT ![c] = FALSE]
    /\ csess' = [csess EXCEPT ![c] = "s1"]
    /\ UNCHANGED <<workers_registry, session_locks, registry_lock, cworker,
                   cattempt, wstatus, wstop, wsess, srt_exists>>
    /\ UNCHANGED notPM

\* worker.py:189  the worker passes its last stop test and goes on to save
WorkerCommit(w) ==
    /\ wstatus[w] = "running"
    /\ ~wstop[w]
    /\ wstatus' = [wstatus EXCEPT ![w] = "saving"]
    /\ UNCHANGED <<workers_registry, session_locks, registry_lock, lock_holder, cpc, cop,
                   csess, clock, cworker, cnew, cactive, cattempt, wstop, wsess, srt_exists>>
    /\ UNCHANGED notPM

\* worker.py:190-195, 205-224  SRT written (or the write fails), finally, thread ends
WorkerSave(w) ==
    /\ wstatus[w] = "saving"
    /\ \E written \in BOOLEAN :
          srt_exists' = [srt_exists EXCEPT ![wsess[w]] = @ \/ written]
    /\ wstatus' = [wstatus EXCEPT ![w] = "dead"]
    /\ wstop' = [wstop EXCEPT ![w] = TRUE]
    /\ wsess' = [wsess EXCEPT ![w] = "s1"]
    /\ UNCHANGED <<workers_registry, session_locks, registry_lock, lock_holder, cpc, cop,
                   csess, clock, cworker, cnew, cactive, cattempt>>
    /\ UNCHANGED notPM

\* worker.py:196-224  run() ends stopped or failed: finally, thread ends
WorkerExit(w) ==
    /\ wstatus[w] = "running"
    /\ wstatus' = [wstatus EXCEPT ![w] = "dead"]
    /\ wstop' = [wstop EXCEPT ![w] = TRUE]
    /\ wsess' = [wsess EXCEPT ![w] = "s1"]
    /\ UNCHANGED <<workers_registry, session_locks, registry_lock, lock_holder, cpc, cop,
                   csess, clock, cworker, cnew, cactive, cattempt, srt_exists>>
    /\ UNCHANGED notPM

CallerStep(c) ==
    \/ Call(c)
    \/ GslAcquire(c)
    \/ GetSessionLock(c)
    \/ AcquireSession(c)
    \/ SpCheckAcquire(c)
    \/ SpCheck(c)
    \/ SwPopAcquire(c)
    \/ SwPop(c)
    \/ SwAlive(c)
    \/ SwStop(c)
    \/ SwJoin(c)
    \/ SwReturn(c)
    \/ SpRemove(c)
    \/ SpCreate(c)
    \/ SpRegisterAcquire(c)
    \/ SpRegister(c)
    \/ SpStart(c)
    \/ ReleaseSession(c)

WorkerStep(w) ==
    \/ WorkerCommit(w)
    \/ WorkerSave(w)
    \/ WorkerExit(w)

NextPM ==
    \/ \E c \in Callers : CallerStep(c)
    \/ \E w \in Workers : WorkerStep(w)

\* the blocking lock acquisitions of caller c
CallerAcquire(c) ==
    \/ GslAcquire(c)
    \/ AcquireSession(c)
    \/ SpCheckAcquire(c)
    \/ SwPopAcquire(c)
    \/ SpRegisterAcquire(c)

\* the steps of caller c that wait for nothing
CallerBody(c) ==
    \/ GetSessionLock(c)
    \/ SpCheck(c)
    \/ SwPop(c)
    \/ SwAlive(c)
    \/ SwStop(c)
    \/ SwJoin(c)
    \/ SwReturn(c)
    \/ SpRemove(c)
    \/ SpCreate(c)
    \/ SpRegister(c)
    \/ SpStart(c)
    \/ ReleaseSession(c)

\* a thread inside a call keeps running, and a thread waiting for a lock that is
\* free again and again gets it; nothing is assumed of the workers or of new calls
FairPM ==
    \A c \in Callers : WF_vars(CallerBody(c)) /\ SF_vars(CallerAcquire(c))

\* ======================================================================
\*  OCRWorker                                   backend/core/worker.py
\* ======================================================================

\* worker.py:26   SENTINEL = object()
SENTINEL == -1

\* worker.py:158  item = None
NoItem == -2

\* worker.py:36   queue.Queue(maxsize=30)
QueueMax == 30

\* worker.py:150  batch_size = 4
batch_size == 4

Frames == 0..(MaxFrames - 1)

\* the worker part while no worker is being observed (Spec, SpecRender)
IdleWK ==
    /\ kpc = "idle"
    /\ is_running = TRUE
    /\ stop_event = FALSE
    /\ frame_queue = <<>>
    /\ kitem = NoItem
    /\ pending_items = <<>>
    /\ ppc = "off"
    /\ pframe = 0
    /\ producer_error = FALSE
    /\ vstate = "closed"
    /\ total_frames = 0
    /\ finish_events = <<>>
    /\ event_after_finish = FALSE
    /\ srt_written = FALSE
    /\ spc = "idle"
    /\ stop_before_finish = FALSE
    /\ idle_time = 0
    /\ since_receipt = 0
    /\ timed_out = FALSE

\* worker.py:31-39 __init__, then Thread.start(): run() is about to begin
InitWK ==
    /\ kpc = "init"
    /\ is_running = TRUE
    /\ stop_event = FALSE
    /\ frame_queue = <<>>
    /\ kitem = NoItem
    /\ pending_items = <<>>
    /\ ppc = "off"
    /\ pframe = 0
    /\ producer_error = FALSE
    /\ vstate = "closed"
    /\ total_frames \in 0..MaxFrames
    /\ finish_events = <<>>
    /\ event_after_finish = FALSE
    /\ srt_written = FALSE
    /\ spc = "idle"
    /\ stop_before_finish = FALSE
    /\ idle_time = 0
    /\ since_receipt = 0
    /\ timed_out = FALSE

\* a callback publishes an event: is it later than a finish event?
Publish == event_after_finish' = (event_after_finish \/ finish_events # <<>>)

\* self.cb["finish"](success)
FinishCb(success) ==
    /\ event_after_finish' = (event_after_finish \/ finish_events # <<>>)
    /\ finish_events' = Append(finish_events, success)

\* worker.py:152 / 182 / 189   self.is_running and not self._stop_event.is_set()
Running == is_running /\ ~stop_event

\* worker.py:159  the watchdog's limit, in seconds
watchdog_timeout == 45

\* the watchdog never expires
WatchdogNever(elapsed) == FALSE

\* worker.py:159  if time.time() - last_activity_time > 45.0
WatchdogExpired(elapsed) == elapsed > watchdog_timeout

\* worker.py:134  "if not self.is_running: return" leaves run() through finally only
EarlyReturnTarget == "fin"

\* ---- the manager's worker.stop()  (worker.py:41-49) ----

\* process_manager.py:114-115  the worker is alive, stop() is entered
StopCall ==
    /\ spc = "idle"
    /\ kpc # "done"
    /\ spc' = "set_running"
    /\ UNCHANGED <<kpc, is_running, stop_event, frame_queue, kitem, pending_items, ppc,
                   pframe, producer_error, vstate, total_frames, finish_events,
                   event_after_finish, srt_written, stop_before_finish,
                   idle_time, since_receipt, timed_out>>
    /\ UNCHANGED notWK

\* worker.py:43
StopSetRunning ==
    /\ spc = "set_running"
    /\ is_running' = FALSE
    /\ stop_before_finish' = (finish_events = <<>>)
    /\ spc' = "set_event"
    /\ UNCHANGED <<kpc, stop_event, frame_queue, kitem, pending_items, ppc, pframe,
                   producer_error, vstate, total_frames, finish_events,
                   event_after_finish, srt_written,
                   idle_time, since_receipt, timed_out>>
    /\ UNCHANGED notWK

\* worker.py:44
StopSetEvent ==
    /\ spc = "set_event"
    /\ stop_event' = TRUE
    /\ spc' = "drain"
    /\ UNCHANGED <<kpc, is_running, frame_queue, kitem, pending_items, ppc, pframe,
                   producer_error, vstate, total_frames, finish_events,
                   event_after_finish, srt_written, stop_before_finish,
                   idle_time, since_receipt, timed_out>>
    /\ UNCHANGED notWK

\* worker.py:45-49  while not empty(): get_nowait()
StopDrain ==
    /\ spc = "drain"
    /\ IF frame_queue = <<>>
         THEN spc' = "done" /\ UNCHANGED frame_queue
         ELSE frame_queue' = Tail(frame_queue) /\ UNCHANGED spc
    /\ UNCHANGED <<kpc, is_running, stop_event, kitem, pending_items, ppc, pframe,
                   producer_error, vstate, total_frames, finish_events,
                   event_after_finish, srt_written, stop_before_finish,
                   idle_time, since_receipt, timed_out>>
    /\ UNCHANGED notWK

\* ---- _producer_loop  (worker.py:51-72) ----

\* worker.py:55-57, video_provider.py:91-115  the reader yields the next frame, ends,
\* or raises.  The producer is never joined: a read that meets a released decoder
\* may still yield, find the capture closed and end the iteration, or raise.
ProducerNext ==
    /\ ppc = "next"
    /\ \/ /\ pframe < total_frames
          /\ ppc' = IF ~is_running \/ stop_event THEN "sentinel" ELSE "process"
          /\ UNCHANGED <<pframe, producer_error>>
       \/ /\ pframe >= total_frames \/ vstate = "released"
          /\ ppc' = "sentinel"
          /\ UNCHANGED <<pframe, producer_error>>
       \/ /\ producer_error' = TRUE
          /\ ppc' = "sentinel"
          /\ UNCHANGED pframe
    /\ UNCHANGED <<kpc, is_running, stop_event, frame_queue, kitem, pending_items,
                   vstate, total_frames, finish_events, event_after_finish, srt_written,
                   spc, stop_before_finish,
                   idle_time, since_receipt, timed_out>>
    /\ UNCHANGED notWK

\* worker.py:59-61  pipeline.process(frame), which may raise; then the is_running test
ProducerProcess ==
    /\ ppc = "process"
    /\ \/ /\ ppc' = IF ~is_running THEN "sentinel" ELSE "put"
          /\ UNCHANGED producer_error
       \/ /\ producer_error' = TRUE
          /\ ppc' = "sentinel"
    /\ UNCHANGED <<kpc, is_running, stop_event, frame_queue, kitem, pending_items, pframe,
                   vstate, total_frames, finish_events, event_after_finish, srt_written,
                   spc, stop_before_finish,
                   idle_time, since_receipt, timed_out>>
    /\ UNCHANGED notWK

\* worker.py:63-67  put(item, timeout=1.0); on queue.Full: break when stopped, else
\* "continue" with the next frame of the for loop
ProducerPut ==
    /\ ppc = "put"
    /\ IF Len(frame_queue) < QueueMax
         THEN /\ frame_queue' = Append(frame_queue, pframe)
              /\ ppc' = "next"
         ELSE /\ UNCHANGED frame_queue
              /\ ppc' = IF ~is_running THEN "sentinel" ELSE "next"
    /\ pframe' = pframe + 1
    /\ UNCHANGED <<kpc, is_running, stop_event, kitem, pending_items, producer_error,
                   vstate, total_frames, finish_events, event_after_finish, srt_written,
                   spc, stop_before_finish,
                   idle_time, since_receipt, timed_out>>
    /\ UNCHANGED notWK

\* worker.py:69 / 72  self.frame_queue.put(SENTINEL): blocks while the queue is full
ProducerSentinel ==
    /\ ppc = "sentinel"
    /\ Len(frame_queue) < QueueMax
    /\ frame_queue' = Append(frame_queue, SENTINEL)
    /\ ppc' = "done"
    /\ UNCHANGED <<kpc, is_running, stop_event, kitem, pending_items, pframe,
                   producer_error, vstate, total_frames, finish_events,
                   event_after_finish, srt_written, spc, stop_before_finish,
                   idle_time, since_receipt, timed_out>>
    /\ UNCHANGED notWK

\* ---- run()  (worker.py:112-224) ----

\* worker.py:118-132  log, config, VideoProvider(...) (which may raise), ImagePipeline
RunInit ==
    /\ kpc = "init"
    /\ Publish
    /\ \/ vstate' = "open" /\ kpc' = "check"
       \/ UNCHANGED vstate /\ kpc' = "except"
    /\ UNCHANGED <<is_running, stop_event, frame_queue, kitem, pending_items, ppc, pframe,
                   producer_error, total_frames, finish_events, srt_written, spc,
                   stop_before_finish,
                   idle_time, since_receipt, timed_out>>
    /\ UNCHANGED notWK

\* worker.py:134  if not self.is_running: return
RunCheck ==
    /\ kpc = "check"
    /\ kpc' = IF ~is_running THEN EarlyReturnTarget ELSE "setup"
    /\ UNCHANGED <<is_running, stop_event, frame_queue, kitem, pending_items, ppc, pframe,
                   producer_error, vstate, total_frames, finish_events,
                   event_after_finish, srt_written, spc, stop_before_finish,
                   idle_time, since_receipt, timed_out>>
    /\ UNCHANGED notWK

\* worker.py:136-150  get_paddle_engine (which may raise), aggregator, producer start,
\* last_activity_time = time.time()
RunSetup ==
    /\ kpc = "setup"
    /\ \/ ppc' = "next" /\ kpc' = "loop"
       \/ UNCHANGED ppc /\ kpc' = "except"
    /\ idle_time' = 0
    /\ since_receipt' = 0
    /\ UNCHANGED <<is_running, stop_event, frame_queue, kitem, pending_items, pframe,
                   producer_error, vstate, total_frames, finish_events,
                   event_after_finish, srt_written, spc, stop_before_finish, timed_out>>
    /\ UNCHANGED notWK

\* time passes while the consumer is in its loop
Tick ==
    /\ kpc \in {"loop", "get", "dispatch", "trigger"}
    /\ idle_time <= watchdog_timeout
    /\ idle_time' = idle_time + ClockStep
    /\ since_receipt' = since_receipt + ClockStep
    /\ UNCHANGED <<kpc, is_running, stop_event, frame_queue, kitem, pending_items, ppc,
                   pframe, producer_error, vstate, total_frames, finish_events,
                   event_after_finish, srt_written, spc, stop_before_finish, timed_out>>
    /\ UNCHANGED notWK

\* worker.py:152  while self.is_running and not self._stop_event.is_set()
RunLoop ==
    /\ kpc = "loop"
    /\ kpc' = IF Running THEN "get" ELSE "final"
    /\ UNCHANGED <<is_running, stop_event, frame_queue, kitem, pending_items, ppc, pframe,
                   producer_error, vstate, total_frames, finish_events,
                   event_after_finish, srt_written, spc, stop_before_finish,
                   idle_time, since_receipt, timed_out>>
    /\ UNCHANGED notWK

\* worker.py:153-160  get(timeout=0.2): an item restarts last_activity_time; on
\* queue.Empty the watchdog raises TimeoutError when its time has run out
RunGet ==
    /\ kpc = "get"
    /\ IF frame_queue # <<>>
         THEN /\ kitem' = Head(frame_queue)
              /\ frame_queue' = Tail(frame_queue)
              /\ kpc' = "dispatch"
              /\ idle_time' = 0
              /\ since_receipt' = 0
              /\ UNCHANGED timed_out
         ELSE /\ kitem' = NoItem
              /\ UNCHANGED <<frame_queue, idle_time, since_receipt>>
              /\ IF WatchdogExpired(idle_time)
                   THEN kpc' = "except" /\ timed_out' = TRUE
                   ELSE kpc' = "dispatch" /\ UNCHANGED timed_out
    /\ UNCHANGED <<is_running, stop_event, pending_items, ppc, pframe, producer_error,
                   vstate, total_frames, finish_events, event_after_finish, srt_written,
                   spc, stop_before_finish>>
    /\ UNCHANGED notWK

\* worker.py:162-179  dead producer and empty queue count as SENTINEL; SENTINEL
\* raises the producer's error or flushes and leaves the loop; a frame is appended
RunDispatch ==
    /\ kpc = "dispatch"
    /\ LET item == IF ppc = "done" /\ frame_queue = <<>> /\ kitem = NoItem
                     THEN SENTINEL ELSE kitem
       IN /\ kitem' = item
          /\ IF item = SENTINEL
               THEN IF producer_error
                      THEN /\ kpc' = "except"
                           /\ UNCHANGED <<pending_items, event_after_finish>>
                      ELSE /\ kpc' = "final"
                           /\ pending_items' = <<>>
                           /\ IF pending_items # <<>>
                                THEN Publish ELSE UNCHANGED event_after_finish
               ELSE /\ kpc' = "trigger"
                    /\ pending_items' = IF item # NoItem
                                          THEN Append(pending_items, item)
                                          ELSE pending_items
                    /\ UNCHANGED event_after_finish
    /\ UNCHANGED <<is_running, stop_event, frame_queue, ppc, pframe, producer_error,
                   vstate, total_frames, finish_events, srt_written, spc,
                   stop_before_finish,
                   idle_time, since_receipt, timed_out>>
    /\ UNCHANGED notWK

\* worker.py:181-187  a full batch, or an idle poll with pending items: leave the
\* loop when stopped, else _process_batch (progress and subtitle events), clear and
\* restart last_activity_time
RunTrigger ==
    /\ kpc = "trigger"
    /\ IF Len(pending_items) >= batch_size \/ (kitem = NoItem /\ pending_items # <<>>)
         THEN IF ~Running
                THEN /\ kpc' = "final"
                     /\ UNCHANGED <<pending_items, event_after_finish>>
                ELSE /\ kpc' = "loop"
                     /\ pending_items' = <<>>
                     /\ Publish
         ELSE /\ kpc' = "loop"
              /\ UNCHANGED <<pending_items, event_after_finish>>
    /\ IF kpc' = "loop" /\ pending_items' # pending_items
         THEN idle_time' = 0 /\ since_receipt' = 0
         ELSE UNCHANGED <<idle_time, since_receipt>>
    /\ UNCHANGED <<is_running, stop_event, frame_queue, kitem, ppc, pframe,
                   producer_error, vstate, total_frames, finish_events, srt_written, spc,
                   stop_before_finish, timed_out>>
    /\ UNCHANGED notWK

\* worker.py:189  if self.is_running and not self._stop_event.is_set()
RunFinal ==
    /\ kpc = "final"
    /\ kpc' = IF Running THEN "save" ELSE "finish_stop"
    /\ UNCHANGED <<is_running, stop_event, frame_queue, kitem, pending_items, ppc, pframe,
                   producer_error, vstate, total_frames, finish_events,
                   event_after_finish, srt_written, spc, stop_before_finish,
                   idle_time, since_receipt, timed_out>>
    /\ UNCHANGED notWK

\* worker.py:190-193  progress, finalize, log, _save_to_file (an OSError is logged)
RunSave ==
    /\ kpc = "save"
    /\ Publish
    /\ \E written \in BOOLEAN : srt_written' = written
    /\ kpc' = "finish_ok"
    /\ UNCHANGED <<is_running, stop_event, frame_queue, kitem, pending_items, ppc, pframe,
                   producer_error, vstate, total_frames, finish_events, spc,
                   stop_before_finish,
                   idle_time, since_receipt, timed_out>>
    /\ UNCHANGED notWK

\* worker.py:194-195  self.cb["finish"](True)
RunFinishOk ==
    /\ kpc = "finish_ok"
    /\ FinishCb(TRUE)
    /\ kpc' = "fin"
    /\ UNCHANGED <<is_running, stop_event, frame_queue, kitem, pending_items, ppc, pframe,
                   producer_error, vstate, total_frames, srt_written, spc,
                   stop_before_finish,
                   idle_time, since_receipt, timed_out>>
    /\ UNCHANGED notWK

\* worker.py:196-199  log "Process stopped by user."; self.cb["finish"](False)
RunFinishStopped ==
    /\ kpc = "finish_stop"
    /\ FinishCb(FALSE)
    /\ kpc' = "fin"
    /\ UNCHANGED <<is_running, stop_event, frame_queue, kitem, pending_items, ppc, pframe,
                   producer_error, vstate, total_frames, srt_written, spc,
                   stop_before_finish,
                   idle_time, since_receipt, timed_out>>
    /\ UNCHANGED notWK

\* worker.py:201-204  except Exception: log; self.cb["finish"](False)
RunExcept ==
    /\ kpc = "except"
    /\ FinishCb(FALSE)
    /\ kpc' = "fin"
    /\ UNCHANGED <<is_running, stop_event, frame_queue, kitem, pending_items, ppc, pframe,
                   producer_error, vstate, total_frames, srt_written, spc,
                   stop_before_finish,
                   idle_time, since_receipt, timed_out>>
    /\ UNCHANGED notWK

\* worker.py:205-210  finally: is_running = False; _stop_event.set(); video.release()
RunFinally ==
    /\ kpc = "fin"
    /\ is_running' = FALSE
    /\ stop_event' = TRUE
    /\ vstate' = IF vstate = "open" THEN "released" ELSE vstate
    /\ kpc' = "drain"
    /\ UNCHANGED <<frame_queue, kitem, pending_items, ppc, pframe, producer_error,
                   total_frames, finish_events, event_after_finish, srt_written, spc,
                   stop_before_finish,
                   idle_time, since_receipt, timed_out>>
    /\ UNCHANGED notWK

\* a teardown that takes the queue for empty without looking
QueueEmptyAlways(q) == TRUE

\* worker.py:213  self.frame_queue.empty()
QueueEmpty(q) == q = <<>>

\* worker.py:212-224  drain the queue, free caches; run() returns
RunDrain ==
    /\ kpc = "drain"
    /\ IF QueueEmpty(frame_queue)
         THEN kpc' = "done" /\ UNCHANGED frame_queue
         ELSE frame_queue' = Tail(frame_queue) /\ UNCHANGED kpc
    /\ UNCHANGED <<is_running, stop_event, kitem, pending_items, ppc, pframe,
                   producer_error, vstate, total_frames, finish_events,
                   event_after_finish, srt_written, spc, stop_before_finish,
                   idle_time, since_receipt, timed_out>>
    /\ UNCHANGED notWK

StopStep == StopCall \/ StopSetRunning \/ StopSetEvent \/ StopDrain

ProducerStep == ProducerNext \/ ProducerProcess \/ ProducerPut \/ ProducerSentinel

RunStep ==
    \/ RunInit
    \/ RunCheck
    \/ RunSetup
    \/ RunLoop
    \/ RunGet
    \/ RunDispatch
    \/ RunTrigger
    \/ RunFinal
    \/ RunSave
    \/ RunFinishOk
    \/ RunFinishStopped
    \/ RunExcept
    \/ RunFinally
    \/ RunDrain

NextWK == StopStep \/ ProducerStep \/ RunStep \/ Tick

\* a worker met in its main loop while OCR lags behind decoding: the consumer is at
\* the top of the loop (worker.py:152) with nothing pending, the queue holds the
\* frames built since (numbered from the oldest one), the producer is at its next
\* frame
InitBacklog ==
    /\ kpc = "loop"
    /\ is_running = TRUE
    /\ stop_event = FALSE
    /\ \E n \in (QueueMax - 1)..QueueMax :
         /\ frame_queue = [i \in 1..n |-> i - 1]
         /\ pframe = n
    /\ kitem = NoItem
    /\ pending_items = <<>>
    /\ ppc = "next"
    /\ producer_error = FALSE
    /\ vstate = "open"
    /\ total_frames = QueueMax + 1
    /\ finish_events = <<>>
    /\ event_after_finish = TRUE
    /\ srt_written = FALSE
    /\ spc = "idle"
    /\ stop_before_finish = FALSE
    /\ idle_time = 0
    /\ since_receipt = 0
    /\ timed_out = FALSE

\* the steps of a worker that is past its setup
NextBacklog ==
    \/ StopStep
    \/ ProducerStep
    \/ RunLoop
    \/ RunGet
    \/ RunDispatch
    \/ RunTrigger
    \/ RunFinal
    \/ RunSave
    \/ RunFinishOk
    \/ RunFinishStopped
    \/ RunExcept
    \/ RunFinally
    \/ RunDrain

\* ======================================================================
\*  Render endpoints and BlurManager
\*       backend/api/routers/processing.py, backend/media/blur_manager.py
\*
\*  The handlers and run_render_task are coroutines of one asyncio loop: what
\*  lies between two awaits is one step.  render_lock is only ever held over
\*  code without an await, so acquiring it never suspends.  The reader,
\*  processor and writer are OS threads and interleave freely.  Every request
\*  names the same file, so all jobs share temp_video_path and output_path.
\* ======================================================================

Clients == {"a", "b"}
Jobs == 1..MaxRenders

\* blur_manager.py:247-258  the fallback chain has three transcode attempts
transcode_attempts == 3

\* blur_manager.py:227-258  the ffmpeg command of attempt k: video encoder and audio
\* codec
AttemptCommand(k) ==
    CASE k = 1 -> [video |-> "h264_nvenc", audio |-> "copy"]
      [] k = 2 -> [video |-> "h264_nvenc", audio |-> "aac"]
      [] k = 3 -> [video |-> "libx264", audio |-> "aac"]
      [] OTHER -> [video |-> "none", audio |-> "none"]

\* a chain in which any failed attempt, a cancelled one too, is followed by the next
FallsThroughAlways(how, k) == k < transcode_attempts

\* blur_manager.py:247-258  the nested `except RuntimeError`: attempt k + 1 is tried
\* when attempt k raised RuntimeError (non-zero exit) and k is not the last
FallsThrough(how, k) == how = "nonzero" /\ k < transcode_attempts

NoJob ==
    [pc |-> "none", client |-> "a", stop_event |-> FALSE, task_stop |-> FALSE,
     t_read |-> "off", t_proc |-> "off", t_write |-> "off", attempt |-> 0,
     child_exit |-> "none", thread_error |-> FALSE,
     stop_called |-> FALSE, raised |-> "none", blur_returned |-> FALSE,
     upload_ok |-> FALSE, success |-> FALSE, error_msg |-> "none", finish |-> <<>>]

InitRD ==
    /\ render_registry = [cl \in Clients |-> None]
    /\ render = [j \in Jobs |-> NoJob]
    /\ temp_exists = FALSE
    /\ out_exists = FALSE

JobsCreated == {j \in Jobs : render[j].pc # "none"}

\* processing.py:204-210  error_msg chosen by the except clause that catches `exc`
ErrorMsgFor(exc) ==
    IF exc = "InterruptedError" THEN "Stopped by user"
    ELSE IF exc = "Exception" THEN "message"
    ELSE "none"

\* a finish payload that carries download_url whatever the outcome
PayloadUrlAlways(success, error_msg) ==
    [success |-> success, download_url |-> TRUE, error |-> error_msg # "none"]

\* processing.py:216-220  the finish payload: download_url only with success, error
\* only with a message
Payload(success, error_msg) ==
    [success |-> success, download_url |-> success, error |-> error_msg # "none"]

\* the threads' loop test: not task_stop.is_set() and not self._stop_event.is_set()
ThreadsMayRun(j) == ~render[j].task_stop /\ ~render[j].stop_event

\* blur_manager.py:200  not exception_queue.empty()
ExceptionQueued(j) == "failed" \in {render[j].t_read, render[j].t_proc, render[j].t_write}

\* an exception `exc` leaves run_render_task's try block: except clause, then finally
Raise(r, exc) ==
    [r EXCEPT !.pc = "finally", !.raised = exc, !.success = FALSE,
              !.error_msg = ErrorMsgFor(exc)]

\* blur_manager.py:209-218  finally of the pipeline: task_stop is set, capture and
\* writer are released, the queues drained.  The daemon threads are not joined: each
\* leaves its loop at the next test of task_stop and is not looked at again.
PipelineFinally(r) ==
    [r EXCEPT !.task_stop = TRUE, !.t_read = "off", !.t_proc = "off", !.t_write = "off"]

\* processing.py:145-229  POST /render_blur: remove a previous output (an OSError is
\* swallowed), register a new BlurManager, schedule run_render_task
RenderRequest(cl) ==
    /\ Cardinality(JobsCreated) < MaxRenders
    /\ LET j == Cardinality(JobsCreated) + 1
       IN /\ render' = [render EXCEPT ![j] = [NoJob EXCEPT !.pc = "scheduled", !.client = cl]]
          /\ render_registry' = [render_registry EXCEPT ![cl] = j]
    /\ \E removed \in BOOLEAN : out_exists' = (out_exists /\ ~removed)
    /\ UNCHANGED temp_exists
    /\ UNCHANGED notRD

\* processing.py:91-95  POST /stop/{client_id}: stop() the registered renderer
StopRequest(cl) ==
    /\ render_registry[cl] # None
    /\ LET j == render_registry[cl]
       IN render' = [render EXCEPT ![j].stop_event = TRUE, ![j].stop_called = TRUE]
    /\ UNCHANGED <<render_registry, temp_exists, out_exists>>
    /\ UNCHANGED notRD

\* processing.py:189  file_path = await ensure_video_cached(...): found, or HTTPException
TaskCache(j) ==
    /\ render[j].pc = "scheduled"
    /\ \/ render' = [render EXCEPT ![j].pc = "begin"]
       \/ render' = [render EXCEPT ![j] = Raise(@, "Exception")]
    /\ UNCHANGED <<render_registry, temp_exists, out_exists>>
    /\ UNCHANGED notRD

\* blur_manager.py:91-134, 186-196  apply_blur_task up to its first await: the stop
\* event is cleared, the video opened (or ValueError), the writer created on the temp
\* path, the three threads started
TaskBegin(j) ==
    /\ render[j].pc = "begin"
    /\ \/ /\ render' = [render EXCEPT ![j] =
                 [@ EXCEPT !.stop_event = FALSE, !.pc = "monitor",
                           !.t_read = "run", !.t_proc = "run", !.t_write = "run"]]
          /\ temp_exists' = TRUE
       \/ /\ render' = [render EXCEPT ![j] =
                 Raise([@ EXCEPT !.stop_event = FALSE], "Exception")]
          /\ UNCHANGED temp_exists
    /\ UNCHANGED <<render_registry, out_exists>>
    /\ UNCHANGED notRD

\* blur_manager.py:136-147  reader thread: EOF or a set flag ends the loop and the
\* end marker is queued; an exception goes to exception_queue (thread_error keeps,
\* as history, that a thread of the job raised)
ReaderThread(j) ==
    /\ render[j].t_read = "run"
    /\ \/ render' = [render EXCEPT ![j].t_read = "done"]
       \/ render' = [render EXCEPT ![j].t_read = "failed", ![j].thread_error = TRUE]
    /\ UNCHANGED <<render_registry, temp_exists, out_exists>>
    /\ UNCHANGED notRD

\* blur_manager.py:149-170  processor thread: ends on the reader's end marker (which
\* it passes on), on a set flag, or with an exception
ProcessorThread(j) ==
    /\ render[j].t_proc = "run"
    /\ \/ /\ render[j].t_read = "done"
          /\ render' = [render EXCEPT ![j].t_proc = "done"]
       \/ /\ ~ThreadsMayRun(j)
          /\ render' = [render EXCEPT ![j].t_proc = "stopped"]
       \/ render' = [render EXCEPT ![j].t_proc = "failed", ![j].thread_error = TRUE]
    /\ UNCHANGED <<render_registry, temp_exists, out_exists>>
    /\ UNCHANGED notRD

\* blur_manager.py:172-184  writer thread: ends on the processor's end marker, on a
\* set flag, or with an exception
WriterThread(j) ==
    /\ render[j].t_write = "run"
    /\ \/ /\ render[j].t_proc = "done"
          /\ render' = [render EXCEPT ![j].t_write = "done"]
       \/ /\ ~ThreadsMayRun(j)
          /\ render' = [render EXCEPT ![j].t_write = "stopped"]
       \/ render' = [render EXCEPT ![j].t_write = "failed", ![j].thread_error = TRUE]
    /\ UNCHANGED <<render_registry, temp_exists, out_exists>>
    /\ UNCHANGED notRD

\* blur_manager.py:196-201, 206-218  the monitor wakes from sleep(0.5): a set stop
\* event or a queued exception is raised through finally (task_stop set, capture and
\* writer released, queues drained); else the loop turns
MonitorWake(j) ==
    /\ render[j].pc = "sleep"
    /\ IF render[j].stop_event
         THEN render' = [render EXCEPT ![j] =
                  Raise(PipelineFinally(@), "InterruptedError")]
         ELSE IF ExceptionQueued(j)
                THEN render' = [render EXCEPT ![j] =
                         Raise(PipelineFinally(@), "Exception")]
                ELSE render' = [render EXCEPT ![j].pc = "monitor"]
    /\ UNCHANGED <<render_registry, temp_exists, out_exists>>
    /\ UNCHANGED notRD

\* blur_manager.py:195, 203-222, 270-273  while t_write.is_alive(): sleep again; once
\* the writer is dead: finally, then the transcode starts unless the stop event is
\* set, in which case the temp video is removed and InterruptedError raised
MonitorCheck(j) ==
    /\ render[j].pc = "monitor"
    /\ IF render[j].t_write = "run"
         THEN /\ render' = [render EXCEPT ![j].pc = "sleep"]
              /\ UNCHANGED temp_exists
         ELSE IF ~render[j].stop_event
                THEN /\ render' = [render EXCEPT ![j] =
                           [PipelineFinally(@) EXCEPT !.pc = "transcode", !.attempt = 1]]
                     /\ UNCHANGED temp_exists
                ELSE /\ render' = [render EXCEPT ![j] =
                           Raise(PipelineFinally(@), "InterruptedError")]
                     /\ temp_exists' = FALSE
    /\ UNCHANGED <<render_registry, out_exists>>
    /\ UNCHANGED notRD

\* blur_manager.py:55-78, 247-269  one turn of _run_subprocess_cancellable for the
\* current attempt: the child still runs (a set stop event cancels it), has exited 0
\* (temp removed, output returned) or exited non-zero (next attempt; after the third
\* the error leaves).  A cancel or a final failure renames temp to output.
TranscodePoll(j) ==
    /\ render[j].pc = "transcode"
    /\ \E child \in {"running", "zero", "nonzero"} :
         LET how == IF child # "running" THEN child
                    ELSE IF render[j].stop_event THEN "cancelled" ELSE "running"
         IN CASE how = "running" ->
                     UNCHANGED <<render, temp_exists, out_exists>>
              [] how = "zero" ->
                     /\ render' = [render EXCEPT ![j] =
                            [@ EXCEPT !.pc = "upload", !.attempt = 0, !.child_exit = how,
                                      !.blur_returned = TRUE]]
                     /\ temp_exists' = FALSE
                     /\ out_exists' = TRUE
              [] how \in {"nonzero", "cancelled"} /\ FallsThrough(how, render[j].attempt) ->
                     /\ render' = [render EXCEPT ![j] =
                            [@ EXCEPT !.attempt = @ + 1, !.child_exit = how]]
                     /\ UNCHANGED <<temp_exists, out_exists>>
              [] how \in {"nonzero", "cancelled"} /\ ~FallsThrough(how, render[j].attempt) ->
                     /\ render' = [render EXCEPT ![j] =
                            Raise([@ EXCEPT !.attempt = 0, !.child_exit = how],
                                  IF how = "cancelled" THEN "InterruptedError" ELSE "Exception")]
                     /\ temp_exists' = FALSE
                     /\ out_exists' = (temp_exists \/ out_exists)
    /\ UNCHANGED render_registry
    /\ UNCHANGED notRD

\* processing.py:199-203  upload_ok = await storage_manager.upload_file(...)
TaskUpload(j) ==
    /\ render[j].pc = "upload"
    /\ \/ render' = [render EXCEPT ![j] =
               [@ EXCEPT !.upload_ok = TRUE, !.success = TRUE, !.pc = "finally"]]
       \/ render' = [render EXCEPT ![j] = Raise(@, "Exception")]
    /\ UNCHANGED <<render_registry, temp_exists, out_exists>>
    /\ UNCHANGED notRD

\* processing.py:211-225  finally: delete the client's registry entry, send finish
TaskFinally(j) ==
    /\ render[j].pc = "finally"
    /\ render_registry' = [render_registry EXCEPT ![render[j].client] = None]
    /\ render' = [render EXCEPT ![j] =
           [@ EXCEPT !.pc = "done",
                     !.finish = Append(@, Payload(render[j].success, render[j].error_msg))]]
    /\ UNCHANGED <<temp_exists, out_exists>>
    /\ UNCHANGED notRD

JobStep(j) ==
    \/ TaskCache(j)
    \/ TaskBegin(j)
    \/ ReaderThread(j)
    \/ ProcessorThread(j)
    \/ WriterThread(j)
    \/ MonitorWake(j)
    \/ MonitorCheck(j)
    \/ TranscodePoll(j)
    \/ TaskUpload(j)
    \/ TaskFinally(j)

NextRD ==
    \/ \E cl \in Clients : RenderRequest(cl)
    \/ \E cl \in Clients : StopRequest(cl)
    \/ \E j \in Jobs : JobStep(j)

\* ======================================================================
\*  Event bus          backend/api/routers/processing.py (_emit),
\*                     backend/api/websockets/manager.py, backend/main.py
\*
\*  A worker thread publishes through its callbacks; _emit hands each event
\*  to the loop with asyncio.run_coroutine_threadsafe.  The loop runs its
\*  ready queue first in, first out: the thread-safe callback creates the
\*  task, whose first step is queued behind it.  The first step of send_json
\*  runs up to the socket write; the await of websocket.send_json may then
\*  suspend (flow control) and return or raise later.
\* ======================================================================

BusClient == "a"
Sockets == 1..MaxSockets

InitBus ==
    /\ active_connections = [c \in Clients |-> None]
    /\ sock_client = [s \in Sockets |-> "none"]
    /\ sock_open = [s \in Sockets |-> FALSE]
    /\ bus_submitted = <<>>
    /\ bus_ready = <<>>
    /\ bus_waiting = {}
    /\ bus_wire = [s \in Sockets |-> <<>>]
    /\ w_current = 0
    /\ w_subs = 0
    /\ w_finished = FALSE
    /\ send_count = 0
    /\ last_send = [client |-> "none", outcome |-> "none"]

\* a loop that runs the entry queued last
NewestReady(q) == Len(q)

\* asyncio's ready queue: _run_once pops handles from the left
NextReady(q) == 1

RemoveAt(q, i) == [k \in 1..(Len(q) - 1) |-> IF k < i THEN q[k] ELSE q[k + 1]]

\* a disconnect that forgets every client
DisconnectedAll(conns, c) == [x \in Clients |-> None]

\* manager.py:24-29  ConnectionManager.disconnect
Disconnected(conns, c) == [conns EXCEPT ![c] = None]

\* processing.py:49-52  _emit: run_coroutine_threadsafe queues the callback that
\* will create the send_json task; the worker thread does not wait for it
Emit(ev) ==
    /\ bus_submitted' = Append(bus_submitted, ev)
    /\ bus_ready' = Append(bus_ready, [kind |-> "callback", seq |-> Len(bus_submitted) + 1])

\* worker.py:226-234, 94  _update_progress(frame_idx, ...) for the next item
WorkerProgress ==
    /\ ~w_finished
    /\ Len(bus_submitted) < MaxEmits
    /\ Emit([type |-> "progress", n |-> w_current + 1])
    /\ w_current' = w_current + 1
    /\ UNCHANGED <<active_connections, sock_client, sock_open, bus_waiting, bus_wire,
                   w_subs, w_finished, send_count, last_send>>
    /\ UNCHANGED notBus

\* subtitle_aggregator.py:63-76  _commit_event: id = len(srt_data) + 1, then the
\* on_new_subtitle callback
WorkerSubtitle ==
    /\ ~w_finished
    /\ Len(bus_submitted) < MaxEmits
    /\ Emit([type |-> "subtitle_new", n |-> w_subs + 1])
    /\ w_subs' = w_subs + 1
    /\ UNCHANGED <<active_connections, sock_client, sock_open, bus_waiting, bus_wire,
                   w_current, w_finished, send_count, last_send>>
    /\ UNCHANGED notBus

\* worker.py:194-199, 201-204  the finish callback, the last thing run() publishes
WorkerFinish ==
    /\ ~w_finished
    /\ \E success \in BOOLEAN : Emit([type |-> "finish", n |-> IF success THEN 1 ELSE 0])
    /\ w_finished' = TRUE
    /\ UNCHANGED <<active_connections, sock_client, sock_open, bus_waiting, bus_wire,
                   w_current, w_subs, send_count, last_send>>
    /\ UNCHANGED notBus

\* main.py:59-64  /ws/{client_id}: accept, then active_connections[client_id] = ws
WsConnect(c) ==
    /\ \E s \in Sockets :
         /\ sock_client[s] = "none"
         /\ \A r \in Sockets : r < s => sock_client[r] # "none"
         /\ sock_client' = [sock_client EXCEPT ![s] = c]
         /\ sock_open' = [sock_open EXCEPT ![s] = TRUE]
         /\ active_connections' = [active_connections EXCEPT ![c] = s]
    /\ UNCHANGED <<bus_submitted, bus_ready, bus_waiting, bus_wire, w_current, w_subs,
                   w_finished, send_count, last_send>>
    /\ UNCHANGED notBus

\* main.py:75-77  the endpoint of socket s sees WebSocketDisconnect or the 60 s
\* timeout: connection_manager.disconnect(client_id)
WsClose(s) ==
    /\ sock_open[s]
    /\ sock_open' = [sock_open EXCEPT ![s] = FALSE]
    /\ active_connections' = Disconnected(active_connections, sock_client[s])
    /\ UNCHANGED <<sock_client, bus_submitted, bus_ready, bus_waiting, bus_wire, w_current,
                   w_subs, w_finished, send_count, last_send>>
    /\ UNCHANGED notBus

\* the loop runs the thread-safe callback: ensure_future(send_json(...)) creates
\* the task and queues its first step
LoopCallback ==
    /\ bus_ready # <<>>
    /\ LET i == NextReady(bus_ready)
       IN /\ bus_ready[i].kind = "callback"
          /\ bus_ready' = Append(RemoveAt(bus_ready, i),
                                 [kind |-> "step", seq |-> bus_ready[i].seq])
    /\ UNCHANGED <<active_connections, sock_client, sock_open, bus_submitted, bus_waiting,
                   bus_wire, w_current, w_subs, w_finished, send_count, last_send>>
    /\ UNCHANGED notBus

\* manager.py:31-39  first step of send_json: no mapping, the message is dropped;
\* else the socket write, which returns, suspends, or raises (then disconnect)
LoopSend ==
    /\ bus_ready # <<>>
    /\ LET i == NextReady(bus_ready)
           e == bus_ready[i]
           c == BusClient
           s == active_connections[c]
       IN /\ e.kind = "step"
          /\ bus_ready' = RemoveAt(bus_ready, i)
          /\ send_count' = 1 - send_count
          /\ IF s = None
               THEN /\ last_send' = [client |-> c, outcome |-> "dropped"]
                    /\ UNCHANGED <<active_connections, bus_waiting, bus_wire>>
               ELSE \/ /\ bus_wire' = [bus_wire EXCEPT ![s] = Append(@, bus_submitted[e.seq])]
                       /\ last_send' = [client |-> c, outcome |-> "sent"]
                       /\ UNCHANGED <<active_connections, bus_waiting>>
                    \/ /\ bus_wire' = [bus_wire EXCEPT ![s] = Append(@, bus_submitted[e.seq])]
                       /\ bus_waiting' = bus_waiting \cup {e.seq}
                       /\ last_send' = [client |-> c, outcome |-> "sent"]
                       /\ UNCHANGED active_connections
                    \/ /\ active_connections' = Disconnected(active_connections, c)
                       /\ last_send' = [client |-> c, outcome |-> "failed"]
                       /\ UNCHANGED <<bus_waiting, bus_wire>>
    /\ UNCHANGED <<sock_client, sock_open, bus_submitted, w_current, w_subs, w_finished>>
    /\ UNCHANGED notBus

\* manager.py:37-39  a suspended websocket.send_json returns, or raises and the
\* except clause disconnects the client
SendResume(q) ==
    /\ q \in bus_waiting
    /\ bus_waiting' = bus_waiting \ {q}
    /\ send_count' = 1 - send_count
    /\ \/ /\ last_send' = [client |-> BusClient, outcome |-> "sent"]
          /\ UNCHANGED active_connections
       \/ /\ last_send' = [client |-> BusClient, outcome |-> "failed"]
          /\ active_connections' = Disconnected(active_connections, BusClient)
    /\ UNCHANGED <<sock_client, sock_open, bus_submitted, bus_ready, bus_wire, w_current,
                   w_subs, w_finished>>
    /\ UNCHANGED notBus

NextBus ==
    \/ WorkerProgress
    \/ WorkerSubtitle
    \/ WorkerFinish
    \/ \E c \in Clients : WsConnect(c)
    \/ \E s \in Sockets : WsClose(s)
    \/ LoopCallback
    \/ LoopSend
    \/ \E q \in 1..MaxEmits + 1 : SendResume(q)

\* ======================================================================
\*  SubtitleAggregator                      core/subtitle_aggregator.py
\*
\*  Time is counted in ticks of half a frame, confidence in percent; a text
\*  is a sequence of characters.
\* ======================================================================

\* subtitle_aggregator.py:39  self.frame_duration = 1.0 / fps, in ticks
frame_duration == 2

\* worker.py:128  "min_conf": self.params.get("min_conf", 0.80), in percent
min_conf == 80

\* OCR results fed to add_result: (text, conf)
Results == {<< <<>>, 0 >>, << <<"a", "b">>, 50 >>, << <<"a", "b">>, 90 >>,
            << <<"a", "b", "c">>, 90 >>, << <<"a", "b", "c">>, 95 >>, << <<"x", "y">>, 90 >>}
TimeSteps == {1, 2}

NoEvent == [text |-> <<>>, start |-> -1, end |-> -1, max_conf |-> 0, gap_frames |-> 0]

SubSeqOf(s, i, k) == [x \in 1..k |-> s[i + x - 1]]

\* difflib.SequenceMatcher.find_longest_match: the longest common block, the
\* earliest in the first text, then the earliest in the second
CommonBlocks(a, b) ==
    {<<i, j, k>> \in (1..Len(a)) \X (1..Len(b)) \X (1..Len(a)) :
        /\ i + k - 1 <= Len(a)
        /\ j + k - 1 <= Len(b)
        /\ SubSeqOf(a, i, k) = SubSeqOf(b, j, k)}

LongestMatch(a, b) ==
    CHOOSE m \in CommonBlocks(a, b) :
        \A o \in CommonBlocks(a, b) :
            \/ m[3] > o[3]
            \/ m[3] = o[3] /\ m[1] < o[1]
            \/ m[3] = o[3] /\ m[1] = o[1] /\ m[2] <= o[2]

\* difflib.SequenceMatcher.get_matching_blocks: characters matched, recursively to
\* the left and to the right of the longest block
RECURSIVE Matches(_, _)
Matches(a, b) ==
    IF CommonBlocks(a, b) = {} THEN 0
    ELSE LET m == LongestMatch(a, b)
         IN m[3] + Matches(SubSeqOf(a, 1, m[1] - 1), SubSeqOf(b, 1, m[2] - 1))
                 + Matches(SubSeqOf(a, m[1] + m[3], Len(a) - m[1] - m[3] + 1),
                           SubSeqOf(b, m[2] + m[3], Len(b) - m[2] - m[3] + 1))

\* Matches, tabulated for the texts that are fed
MatchCount ==
    [p \in {r[1] : r \in Results} \X {r[1] : r \in Results} |-> Matches(p[1], p[2])]

\* a comparison that finds no two texts similar
never_similar(text1, text2) == FALSE

\* utils.py:20-34  is_similar(text1, text2, 0.6): ratio() = 2 * M / T > 0.6
is_similar(text1, text2) ==
    /\ text1 # <<>>
    /\ text2 # <<>>
    /\ 10 * 2 * MatchCount[<<text1, text2>>] > 6 * (Len(text1) + Len(text2))

\* an extension that always takes the new text and confidence
extend_always(ev, text, end, conf) ==
    [ev EXCEPT !.end = end, !.gap_frames = 0, !.text = text, !.max_conf = conf]

\* subtitle_aggregator.py:19-25  SubtitleEvent.extend
extend(ev, text, end, conf) ==
    LET better == conf > ev.max_conf \/ (conf = ev.max_conf /\ Len(text) > Len(ev.text))
    IN [ev EXCEPT !.end = end, !.gap_frames = 0,
                  !.text = IF better THEN text ELSE @,
                  !.max_conf = IF better THEN conf ELSE @]

\* an event that ends where it starts
PointEvent(text, start, end, conf) ==
    [text |-> text, start |-> start, end |-> start, max_conf |-> conf, gap_frames |-> 0]

\* subtitle_aggregator.py:12-17  SubtitleEvent(text, start, end, conf)
SubtitleEvent(text, start, end, conf) ==
    [text |-> text, start |-> start, end |-> end, max_conf |-> conf, gap_frames |-> 0]

\* ids counted from the number of items committed before
CommittedFromZero(data, ev) ==
    IF ev = NoEvent THEN data
    ELSE Append(data, [id |-> Len(data), start |-> ev.start, end |-> ev.end,
                       text |-> ev.text, conf |-> ev.max_conf])

\* subtitle_aggregator.py:63-76  _commit_event: srt_data after committing `ev`
Committed(data, ev) ==
    IF ev = NoEvent THEN data
    ELSE Append(data, [id |-> Len(data) + 1, start |-> ev.start, end |-> ev.end,
                       text |-> ev.text, conf |-> ev.max_conf])

\* the tolerance is spent one invalid tuple earlier
GapReached(gap_frames) == gap_frames >= gap_tolerance

\* subtitle_aggregator.py:60  if self.active_event.gap_frames > self.gap_tolerance
GapExceeded(gap_frames) == gap_frames > gap_tolerance

\* subtitle_aggregator.py:74-75, worker.py:144, 241-244  on_new_subtitle(item) for the
\* items appended by a commit: the worker's subtitle callback
Emitted(data, new_data) ==
    agg_emitted \o [i \in 1..(Len(new_data) - Len(data)) |-> new_data[Len(data) + i]]

NotSaved == [called |-> FALSE, srt_data |-> <<>>]

InitAgg ==
    /\ agg_in = <<>>
    /\ agg_run = 0
    /\ agg_valid_t = -1
    /\ agg_merged = {}
    /\ agg_emitted = <<>>
    /\ agg_saved = NotSaved
    /\ srt_data = <<>>
    /\ active_event = NoEvent
    /\ agg_t = 0
    /\ agg_calls = 0
    /\ agg_first = <<>>
    /\ agg_uniform = TRUE
    /\ agg_final = FALSE

\* subtitle_aggregator.py:41-61  add_result(text, conf, timestamp), the timestamp
\* `dt` ticks after the previous call's
add_result(text, conf, dt) ==
    /\ ~agg_final
    /\ agg_calls < MaxResults
    /\ LET timestamp == agg_t + dt
           is_valid == text # <<>> /\ conf >= min_conf
           frame_end_time == timestamp + frame_duration
       IN /\ agg_t' = timestamp
          /\ agg_uniform' = (agg_uniform /\ (agg_calls = 0 \/
                                (text = agg_first[1] /\ conf = agg_first[2])))
          /\ agg_first' = IF agg_calls = 0 THEN <<text, conf, timestamp>>
                          ELSE IF agg_uniform' THEN agg_first ELSE <<>>
          /\ IF is_valid
               THEN IF active_event # NoEvent
                      THEN IF is_similar(active_event.text, text)
                             THEN /\ active_event' = extend(active_event, text,
                                                            frame_end_time, conf)
                                  /\ UNCHANGED srt_data
                             ELSE /\ srt_data' = Committed(srt_data, active_event)
                                  /\ active_event' = SubtitleEvent(text, timestamp,
                                                                   frame_end_time, conf)
                      ELSE /\ active_event' = SubtitleEvent(text, timestamp,
                                                            frame_end_time, conf)
                           /\ UNCHANGED srt_data
               ELSE IF active_event # NoEvent
                      THEN IF GapExceeded(active_event.gap_frames + 1)
                             THEN /\ srt_data' = Committed(srt_data, active_event)
                                  /\ active_event' = NoEvent
                             ELSE /\ active_event' = [active_event EXCEPT !.gap_frames = @ + 1]
                                  /\ UNCHANGED srt_data
                      ELSE UNCHANGED <<srt_data, active_event>>
          /\ agg_in' = <<text, conf>>
          /\ agg_valid_t' = IF active_event' = NoEvent THEN -1
                            ELSE IF is_valid THEN timestamp ELSE agg_valid_t
          /\ agg_run' = IF active_event' = NoEvent \/ is_valid THEN 0 ELSE agg_run + 1
          /\ agg_merged' = IF active_event' = NoEvent THEN {}
                           ELSE IF ~is_valid THEN agg_merged
                           ELSE IF active_event'.start = timestamp THEN {<<text, conf>>}
                           ELSE agg_merged \cup {<<text, conf>>}
          /\ agg_emitted' = Emitted(srt_data, srt_data')
    /\ agg_calls' = agg_calls + 1
    /\ UNCHANGED <<agg_final, agg_saved>>
    /\ UNCHANGED notAgg

\* subtitle_aggregator.py:78-81  finalize
finalize ==
    /\ ~agg_final
    /\ srt_data' = Committed(srt_data, active_event)
    /\ active_event' = NoEvent
    /\ agg_final' = TRUE
    /\ agg_emitted' = Emitted(srt_data, srt_data')
    /\ agg_valid_t' = -1
    /\ agg_run' = 0
    /\ agg_merged' = {}
    /\ UNCHANGED <<agg_t, agg_calls, agg_first, agg_uniform, agg_in, agg_saved>>
    /\ UNCHANGED notAgg

\* worker.py:191-193  srt_data = aggregator.finalize() ... self._save_to_file(srt_data)
SaveSrtData ==
    /\ agg_final
    /\ agg_saved = NotSaved
    /\ agg_saved' = [called |-> TRUE, srt_data |-> srt_data]
    /\ UNCHANGED <<srt_data, active_event, agg_t, agg_calls, agg_first, agg_uniform,
                   agg_final, agg_in, agg_run, agg_valid_t, agg_merged, agg_emitted>>
    /\ UNCHANGED notAgg

NextAgg ==
    \/ \E r \in Results, dt \in TimeSteps : add_result(r[1], r[2], dt)
    \/ finalize
    \/ SaveSrtData

\* ======================================================================
\*  SRT writer and parser        backend/core/worker.py (_save_to_file),
\*                     backend/core/utils.py, backend/core/srt_parser.py
\*
\*  Times are counted in half milliseconds, a text is a sequence of
\*  characters, a formatted timestamp is the tuple of its printed fields.
\* ======================================================================

\* start and end times of the items written, in half milliseconds
SrtTimes == {0, 3, 2001, 7322005}

\* texts of the items written: OCR lines, stripped and joined by a space
SrtTexts == {<<"a">>, <<"a", " ", "b">>, <<"a", "<", "b", ">", "c">>, <<"<", "a">>}

SrtItems ==
    {it \in [start : SrtTimes, end : SrtTimes, text : SrtTexts] : it.start < it.end}

\* utils.py:10-28  format_timestamp: whole seconds, and the milliseconds of
\* int(td.microseconds / 1000)
format_timestamp(t) ==
    LET total_seconds == t \div 2000
        milliseconds == (t % 2000) \div 2
    IN <<total_seconds \div 3600, (total_seconds % 3600) \div 60, total_seconds % 60,
         milliseconds>>

\* srt_parser.py:20-26  time_to_seconds
time_to_seconds(f) == (f[1] * 3600 + f[2] * 60 + f[3]) * 2000 + f[4] * 2

Whitespace == {" ", "\n"}

\* srt_parser.py:13  ((?:(?!\n\n).)*): the text up to the first blank line
RECURSIVE TextBlock(_)
TextBlock(s) ==
    IF s = <<>> THEN <<>>
    ELSE IF Len(s) >= 2 /\ s[1] = "\n" /\ s[2] = "\n" THEN <<>>
    ELSE <<s[1]>> \o TextBlock(Tail(s))

\* srt_parser.py:31  text_block.strip()
RECURSIVE StripLeft(_)
StripLeft(s) ==
    IF s # <<>> /\ s[1] \in Whitespace THEN StripLeft(Tail(s)) ELSE s

RECURSIVE StripRight(_)
StripRight(s) ==
    IF s # <<>> /\ s[Len(s)] \in Whitespace THEN StripRight(SubSeq(s, 1, Len(s) - 1)) ELSE s

Strip(s) == StripRight(StripLeft(s))

\* srt_parser.py:15, 32  tag_pattern.sub('', text) with <[^>]+>
RECURSIVE RemoveTags(_)
RemoveTags(s) ==
    IF s = <<>> THEN <<>>
    ELSE LET closers == {j \in 2..Len(s) : s[j] = ">"}
         IN IF s[1] = "<" /\ closers # {} /\ (CHOOSE j \in closers : \A k \in closers : j <= k) > 2
              THEN RemoveTags(SubSeq(s, (CHOOSE j \in closers : \A k \in closers : j <= k) + 1,
                                     Len(s)))
              ELSE <<s[1]>> \o RemoveTags(Tail(s))

\* worker.py:245-258  the block _save_to_file writes for one item
SrtBlock(item) ==
    [id |-> item.id, start |-> format_timestamp(item.start),
     end |-> format_timestamp(item.end), text |-> item.text]

\* srt_parser.py:28-41  the subtitle parse_srt builds from one matched block
ParsedBlock(b) ==
    [id |-> b.id, start |-> time_to_seconds(b.start), end |-> time_to_seconds(b.end),
     text |-> RemoveTags(Strip(TextBlock(b.text)))]

\* committed lists of up to MaxItems items, ids 1..N as _commit_event assigns them
SrtLists ==
    UNION {{[i \in 1..n |-> [id |-> i, start |-> f[i].start, end |-> f[i].end,
                             text |-> f[i].text]] : f \in [1..n -> SrtItems]} : n \in 0..MaxItems}

IdleSrt ==
    /\ srt_items = <<>>
    /\ srt_file = <<>>
    /\ srt_parsed = <<>>
    /\ srt_pc = "idle"

InitSrt ==
    /\ srt_items \in SrtLists
    /\ srt_file = <<>>
    /\ srt_parsed = <<>>
    /\ srt_pc = "items"

\* worker.py:245-258  _save_to_file(srt_data): every block is written, or open()
\* raises OSError, which is logged
SaveToFile ==
    /\ srt_pc = "items"
    /\ \/ /\ srt_file' = [i \in 1..Len(srt_items) |-> SrtBlock(srt_items[i])]
          /\ srt_pc' = "saved"
       \/ /\ srt_pc' = "failed"
          /\ UNCHANGED srt_file
    /\ UNCHANGED <<srt_items, srt_parsed>>
    /\ UNCHANGED notSrt

\* srt_parser.py:6-43  parse_srt(content)
ParseSrt ==
    /\ srt_pc = "saved"
    /\ srt_parsed' = [i \in 1..Len(srt_file) |-> ParsedBlock(srt_file[i])]
    /\ srt_pc' = "parsed"
    /\ UNCHANGED <<srt_items, srt_file>>
    /\ UNCHANGED notSrt

NextSrt ==
    \/ SaveToFile
    \/ ParseSrt

\* ======================================================================
\*  Chunked upload                    backend/media/video/upload.py,
\*                                    backend/api/routers/video.py
\*
\*  One client uploads one file under one upload_id, a request at a time.
\* ======================================================================

NoChunk == <<-1>>
NoFile == <<-1>>

\* contents a chunk may have
ChunkData == {<<0>>, <<1>>, <<1, 0>>}

\* chunk_index values a request may carry
ChunkIndexes == 0..MaxChunks

total_chunks == Len(up_split)

IdleUpload ==
    /\ up_split = <<>>
    /\ up_dir = FALSE
    /\ up_chunks = [i \in ChunkIndexes |-> NoChunk]
    /\ up_final = NoFile
    /\ up_pc = "off"
    /\ up_resent = FALSE
    /\ up_beyond = FALSE

InitUpload ==
    /\ up_split \in UNION {[1..n -> ChunkData] : n \in 1..MaxChunks}
    /\ up_dir = FALSE
    /\ up_chunks = [i \in ChunkIndexes |-> NoChunk]
    /\ up_final = NoFile
    /\ up_pc = "idle"
    /\ up_resent = FALSE
    /\ up_beyond = FALSE

\* os.listdir(chunk_dir) names ending in ".chunk"
ChunkFiles == {i \in ChunkIndexes : up_chunks[i] # NoChunk}

\* upload.py:35-44  is_upload_complete
is_upload_complete(total) ==
    IF ~up_dir THEN FALSE ELSE Cardinality(ChunkFiles) = total

\* upload.py:66-75  get_missing_chunks, as the set of the indices returned
get_missing_chunks(total) ==
    IF ~up_dir THEN 0..(total - 1) ELSE {i \in 0..(total - 1) : i \notin ChunkFiles}

\* the chunks joined from the last index down
RECURSIVE AssembledBackwards(_)
AssembledBackwards(total) ==
    IF total = 0 THEN <<>>
    ELSE (IF up_chunks[total - 1] # NoChunk THEN up_chunks[total - 1] ELSE <<>>)
         \o AssembledBackwards(total - 1)

\* upload.py:53-58  the bytes written to the final file: chunk 0, 1, ..., total - 1,
\* those that exist
RECURSIVE Assembled(_)
Assembled(total) ==
    IF total = 0 THEN <<>>
    ELSE Assembled(total - 1)
         \o (IF up_chunks[total - 1] # NoChunk THEN up_chunks[total - 1] ELSE <<>>)

\* video.py:74-79, upload.py:24-33  the request's chunk is saved: an index of the
\* split carries that chunk's bytes, an index beyond it any bytes
save_chunk(i) ==
    /\ up_pc = "idle"
    /\ \E data \in ChunkData :
         /\ i < total_chunks => data = up_split[i + 1]
         /\ i >= total_chunks => data = <<0>>
         /\ up_chunks' = [up_chunks EXCEPT ![i] = data]
    /\ up_dir' = TRUE
    /\ up_resent' = (up_resent \/ up_chunks[i] # NoChunk)
    /\ up_beyond' = (up_beyond \/ i >= total_chunks)
    /\ up_pc' = "saved"
    /\ UNCHANGED <<up_split, up_final>>
    /\ UNCHANGED notUp

\* video.py:81, 139  if upload_manager.is_upload_complete(...): assemble, else
\* answer chunk_received
CheckComplete ==
    /\ up_pc = "saved"
    /\ up_pc' = IF is_upload_complete(total_chunks) THEN "assemble" ELSE "idle"
    /\ UNCHANGED <<up_split, up_dir, up_chunks, up_final, up_resent, up_beyond>>
    /\ UNCHANGED notUp

\* upload.py:46-64  assemble_file: concatenate, remove every file, remove the directory
assemble_file ==
    /\ up_pc = "assemble"
    /\ up_final' = Assembled(total_chunks)
    /\ up_chunks' = [i \in ChunkIndexes |-> NoChunk]
    /\ up_dir' = FALSE
    /\ up_pc' = "assembled"
    /\ UNCHANGED <<up_split, up_resent, up_beyond>>
    /\ UNCHANGED notUp

NextUpload ==
    \/ \E i \in ChunkIndexes : save_chunk(i)
    \/ CheckComplete
    \/ assemble_file

\* ======================================================================
\*  PaddleWrapper engines                      backend/ocr/engine.py
\*
\*  OCR worker threads fetch the engine of their language and run batches
\*  on it.  Every worker passes use_gpu=True, so an engine's key is its
\*  language.
\* ======================================================================

EngineThreads == {1, 2}
Langs == {"en", "ru"}

InitEngine ==
    /\ engines = {}
    /\ engine_lock = None
    /\ inference_lock = [l \in Langs |-> None]
    /\ epc = [t \in EngineThreads |-> "idle"]
    /\ elang = [t \in EngineThreads |-> "en"]
    /\ eframes = [t \in EngineThreads |-> 0]

\* engine.py:38  self._inference_lock = threading.Lock(): a lock per PaddleWrapper
InferenceLockOf(lang) == lang

\* worker.py:136, engine.py:141-142  a worker calls get_paddle_engine(lang): first
\* test of `key not in _engines`, without the lock
GetEngine(t) ==
    /\ epc[t] = "idle"
    /\ \E lang \in Langs :
         /\ elang' = [elang EXCEPT ![t] = lang]
         /\ epc' = [epc EXCEPT ![t] = IF lang \in engines THEN "ready" ELSE "ge_lock"]
    /\ UNCHANGED <<engines, engine_lock, inference_lock, eframes>>
    /\ UNCHANGED notEng

\* engine.py:143  with _engine_lock:
GeAcquire(t) ==
    /\ epc[t] = "ge_lock"
    /\ engine_lock = None
    /\ engine_lock' = t
    /\ epc' = [epc EXCEPT ![t] = "ge_locked"]
    /\ UNCHANGED <<engines, inference_lock, elang, eframes>>
    /\ UNCHANGED notEng

\* engine.py:144-146  second test under the lock, PaddleWrapper(...) if still
\* missing, lock released
GeCreate(t) ==
    /\ epc[t] = "ge_locked"
    /\ engines' = engines \cup {elang[t]}
    /\ engine_lock' = None
    /\ epc' = [epc EXCEPT ![t] = "ready"]
    /\ UNCHANGED <<inference_lock, elang, eframes>>
    /\ UNCHANGED notEng

\* engine.py:63-71  predict_batch(frames): an empty batch returns at once, else the
\* thread goes for the engine's inference lock
PredictBatch(t) ==
    /\ epc[t] = "ready"
    /\ \E n \in 0..batch_size :
         /\ eframes' = [eframes EXCEPT ![t] = n]
         /\ epc' = [epc EXCEPT ![t] = IF n = 0 THEN "ready" ELSE "pb_lock"]
    /\ UNCHANGED <<engines, engine_lock, inference_lock, elang>>
    /\ UNCHANGED notEng

\* engine.py:71  with self._inference_lock:
PbAcquire(t) ==
    /\ epc[t] = "pb_lock"
    /\ inference_lock[InferenceLockOf(elang[t])] = None
    /\ inference_lock' = [inference_lock EXCEPT ![InferenceLockOf(elang[t])] = t]
    /\ epc' = [epc EXCEPT ![t] = "infer"]
    /\ UNCHANGED <<engines, engine_lock, elang, eframes>>
    /\ UNCHANGED notEng

\* engine.py:72-83  one frame goes through self.ocr.predict (a failure appends
\* None); after the last frame the lock is released and the results returned
InferFrame(t) ==
    /\ epc[t] = "infer"
    /\ eframes' = [eframes EXCEPT ![t] = @ - 1]
    /\ IF eframes[t] = 1
         THEN /\ inference_lock' = [inference_lock EXCEPT ![InferenceLockOf(elang[t])] = None]
              /\ epc' = [epc EXCEPT ![t] = "ready"]
         ELSE UNCHANGED <<inference_lock, epc>>
    /\ UNCHANGED <<engines, engine_lock, elang>>
    /\ UNCHANGED notEng

\* worker.py:205-224  the worker's run() ends; the thread's next job may use
\* another language
WorkerDone(t) ==
    /\ epc[t] = "ready"
    /\ epc' = [epc EXCEPT ![t] = "idle"]
    /\ elang' = [elang EXCEPT ![t] = "en"]
    /\ UNCHANGED <<engines, engine_lock, inference_lock, eframes>>
    /\ UNCHANGED notEng

EngineStep(t) ==
    \/ GetEngine(t)
    \/ GeAcquire(t)
    \/ GeCreate(t)
    \/ PredictBatch(t)
    \/ PbAcquire(t)
    \/ InferFrame(t)
    \/ WorkerDone(t)

NextEngine == \E t \in EngineThreads : EngineStep(t)

\* ======================================================================
\*  Blur geometry                               backend/core/geometry.py
\*
\*  A text is a sequence of character classes; widths are kept in
\*  hundredths of the font size and the float settings in tenths, so the
\*  arithmetic is exact where Python's is in floats.
\* ======================================================================

\* geometry.py:18-29  width of one character, in hundredths of the font size
CharWidth(c) ==
    CASE c = "cjk"    -> 110
      [] c = "wide"   -> 95
      [] c = "upper"  -> 80
      [] c = "digit"  -> 65
      [] c = "narrow" -> 35
      [] OTHER        -> 65

RECURSIVE SumWidth(_)
SumWidth(text) ==
    IF text = <<>> THEN 0 ELSE CharWidth(Head(text)) + SumWidth(Tail(text))

\* math.ceil of n / d for n >= 0, d > 0
Ceil(n, d) == (n + d - 1) \div d

\* geometry.py:8-31  width_multiplier arrives in tenths
estimate_text_width(text, font_size, width_multiplier) ==
    IF text = <<>> THEN 0
    ELSE Ceil(SumWidth(text) * font_size * width_multiplier, 1000)

Max(a, b) == IF a >= b THEN a ELSE b
Min(a, b) == IF a <= b THEN a ELSE b

\* geometry.py:33-64  padding_y and width_multiplier arrive in tenths; int()
\* of the non-negative product truncates, // floors
calculate_blur_roi(text, width, height, settings) ==
    IF text = <<>> THEN <<0, 0, 0, 0>>
    ELSE
        LET y_pos == settings.y
            font_size_px == settings.font_size
            text_h == font_size_px + 4
            text_w == estimate_text_width(text, font_size_px, settings.width_multiplier)
            padding_x == settings.padding_x
            padding_y_px == (text_h * settings.padding_y) \div 10
            x == (width - text_w) \div 2
            y == y_pos - text_h
            left == x - padding_x
            top == y - padding_y_px
            right == left + text_w + (padding_x * 2)
            bottom == top + text_h + (padding_y_px * 2)
            final_x == Max(0, left)
            final_y == Max(0, top)
            final_w == Max(0, Min(width, right) - final_x)
            final_h == Max(0, Min(height, bottom) - final_y)
        IN  <<final_x, final_y, final_w, final_h>>

RoiTexts == { <<>>, <<"narrow">>, <<"wide", "upper", "digit">>,
              <<"cjk", "cjk", "other", "wide", "wide", "wide">> }
RoiWidths == {64, 640}
RoiHeights == {48, 480}
\* schemas.py:50-56  BlurSettings: y defaults to 900 whatever the video's height
RoiBaselines == {0, 40, 430, 900}
RoiFontSizes == {21, 120}
RoiPaddingsX == {0, 40, 400}
RoiPaddingsY == {0, 20, 55}
RoiMultipliers == {10, 15}

RoiCalls ==
    [text : RoiTexts, width : RoiWidths, height : RoiHeights,
     settings : [y : RoiBaselines, font_size : RoiFontSizes, padding_x : RoiPaddingsX,
                 padding_y : RoiPaddingsY, width_multiplier : RoiMultipliers]]

IdleRoi ==
    /\ roi_args = CHOOSE c \in RoiCalls : c.text = <<>>
    /\ roi_result = <<>>
    /\ roi_pc = "off"

InitRoi ==
    /\ roi_args \in RoiCalls
    /\ roi_result = <<>>
    /\ roi_pc = "call"

\* blur_manager.py:122  roi = calculate_blur_roi(text, width, height, blur_settings)
CallBlurRoi ==
    /\ roi_pc = "call"
    /\ roi_result' = calculate_blur_roi(roi_args.text, roi_args.width, roi_args.height,
                                        roi_args.settings)
    /\ roi_pc' = "returned"
    /\ UNCHANGED roi_args
    /\ UNCHANGED notRoi

NextRoi == CallBlurRoi

\* ======================================================================
\*  Batching                                    backend/core/worker.py
\*
\*  The consumer's loop iterations and _process_batch, for work items of
\*  the three shapes the loop distinguishes: "img" (an image, not skipped),
\*  "skip" (skipped, no image) and "nil" (not skipped, no image).  An image
\*  is named by the arrival number of its item.
\* ======================================================================

ItemKinds == {"img", "skip", "nil"}

\* worker.py:39, 116  self.last_ocr_result = ("", 0.0); also parse_results of nothing
EmptyResult == <<"", 0>>

\* what engine.predict_batch appends for a frame whose inference raised
NoResult == <<"none", 0>>

\* the raw OCR output of the image of item id
RawResult(id) == <<"raw", id>>

\* engine.py:86-130  parse_results: no output gives ("", 0.0), else the text read
parse_results(raw) == IF raw = NoResult THEN EmptyResult ELSE <<"text", raw[2]>>

\* the results of the frames whose inference succeeded, the others left out
predict_batch_without_none(frames, bad) ==
    LET ok == SelectSeq(frames, LAMBDA f : f \notin bad)
    IN  [i \in 1..Len(ok) |-> RawResult(ok[i])]

\* engine.py:63-83  one result per frame, None for a frame whose inference raised
predict_batch(frames, bad) ==
    [i \in 1..Len(frames) |-> IF frames[i] \in bad THEN NoResult ELSE RawResult(frames[i])]

\* worker.py:77-81  except Exception: batch_results = [None] * len(valid_frames)
NoneForAll(valid_frames) == [i \in 1..Len(valid_frames) |-> NoResult]

\* the result index is not advanced
SameIndex(res_idx) == res_idx

\* worker.py:97  res_idx += 1
NextIndex(res_idx) == res_idx + 1

\* worker.py:85-108  the walk over pending_items: the (item, result) pairs passed to
\* the aggregator, and last_ocr_result afterwards
RECURSIVE ProcessItems(_, _, _, _)
ProcessItems(items, batch_results, res_idx, last) ==
    IF items = <<>> THEN [out |-> <<>>, last |-> last]
    ELSE
        LET item == Head(items)
            raw_res == IF res_idx < Len(batch_results)
                         THEN batch_results[res_idx + 1] ELSE NoResult
            res == CASE item.kind = "skip" -> last
                     [] item.kind = "img"  -> parse_results(raw_res)
                     [] OTHER              -> EmptyResult
            rest == ProcessItems(Tail(items), batch_results,
                                 IF item.kind = "img" THEN NextIndex(res_idx) ELSE res_idx,
                                 IF item.kind = "img" THEN res ELSE last)
        IN  [out  |-> <<[id |-> item.id, kind |-> item.kind, res |-> res,
                         failed |-> (item.kind = "img" /\ raw_res = NoResult)]>> \o rest.out,
             last |-> rest.last]

NoFlush ==
    [items |-> <<>>, calls |-> 0, frames |-> <<>>, results |-> <<>>, bad |-> {},
     raised |-> FALSE]

IdleBatch ==
    /\ b_pc = "off"
    /\ b_arrived = 0
    /\ b_pending = <<>>
    /\ b_valid = <<>>
    /\ b_last = EmptyResult
    /\ b_out = <<>>
    /\ b_flush = NoFlush

\* worker.py:116, 149-151  run() reaches its loop with empty lists
InitBatch ==
    /\ b_pc = "loop"
    /\ b_arrived = 0
    /\ b_pending = <<>>
    /\ b_valid = <<>>
    /\ b_last = EmptyResult
    /\ b_out = <<>>
    /\ b_flush = NoFlush

\* worker.py:74-110  _process_batch(pending_items, valid_frames, ...) followed by the
\* two clear() calls; bad are the frames whose inference raises, raised says that
\* the call of predict_batch raised as a whole
ProcessBatch(pending, valid) ==
    \E bad \in SUBSET {valid[i] : i \in 1..Len(valid)}, raised \in BOOLEAN :
        LET batch_results == IF valid = <<>> THEN <<>>
                             ELSE IF raised THEN NoneForAll(valid)
                             ELSE predict_batch(valid, bad)
            walk == ProcessItems(pending, batch_results, 0, b_last)
        IN  /\ raised => (valid # <<>> /\ bad = {valid[i] : i \in 1..Len(valid)})
            /\ b_out' = b_out \o walk.out
            /\ b_last' = walk.last
            /\ b_flush' = [items |-> pending, calls |-> IF valid # <<>> THEN 1 ELSE 0,
                           frames |-> valid, results |-> batch_results, bad |-> bad,
                           raised |-> raised]
            /\ b_pending' = <<>>
            /\ b_valid' = <<>>

\* worker.py:153-157, 174-187  an iteration that receives a work item: it is appended,
\* its image too, and a full batch is processed
LoopItem ==
    /\ b_pc = "loop"
    /\ b_arrived < MaxArrivals
    /\ \E kind \in ItemKinds :
         LET item == [id |-> b_arrived + 1, kind |-> kind]
             pending == Append(b_pending, item)
             valid == IF kind = "img" THEN Append(b_valid, item.id) ELSE b_valid
         IN  /\ b_arrived' = b_arrived + 1
             /\ IF Len(valid) >= batch_size
                  THEN ProcessBatch(pending, valid)
                  ELSE /\ b_pending' = pending
                       /\ b_valid' = valid
                       /\ UNCHANGED <<b_last, b_out, b_flush>>
    /\ UNCHANGED b_pc
    /\ UNCHANGED notBatch

\* worker.py:158-160, 181-187  an iteration whose get timed out: what is pending is
\* processed
LoopIdle ==
    /\ b_pc = "loop"
    /\ IF b_pending # <<>>
         THEN ProcessBatch(b_pending, b_valid)
         ELSE UNCHANGED <<b_pending, b_valid, b_last, b_out, b_flush>>
    /\ UNCHANGED <<b_pc, b_arrived>>
    /\ UNCHANGED notBatch

\* worker.py:165-172  SENTINEL: what is pending is processed and the loop is left
LoopSentinel ==
    /\ b_pc = "loop"
    /\ IF b_pending # <<>>
         THEN ProcessBatch(b_pending, b_valid)
         ELSE UNCHANGED <<b_pending, b_valid, b_last, b_out, b_flush>>
    /\ b_pc' = "done"
    /\ UNCHANGED b_arrived
    /\ UNCHANGED notBatch

NextBatch == LoopItem \/ LoopIdle \/ LoopSentinel

\* ======================================================================
\*  Concurrent upload requests        backend/api/routers/video.py,
\*                                    backend/media/video/upload.py
\*
\*  The chunks of one upload arrive in concurrent requests, request r carrying
\*  chunk r - 1.  upload_video is a coroutine: what lies between two awaits is
\*  one step of the loop.  save_chunk and assemble_file run in threads of
\*  asyncio.to_thread, and their file operations interleave freely.
\* ======================================================================

Requests == 1..MaxRequests

\* Form field total_chunks
cu_total == MaxRequests

ChunkOf(r) == r - 1

\* the bytes of chunk i
ChunkBytes(i) == <<2 * i, 2 * i + 1>>

NoRequest ==
    [pc |-> "new", written |-> 0, asm_i |-> 0, off |-> 0, fd |-> 0, listed |-> {},
     result |-> "none"]

IdleUploadConc ==
    /\ cu_dir = FALSE
    /\ cu_chunks = [i \in 0..(cu_total - 1) |-> NoChunk]
    /\ cu_final = NoFile
    /\ cu_gen = 0
    /\ cu_req = [r \in Requests |-> [NoRequest EXCEPT !.pc = "off"]]
    /\ cu_observed = {}

\* upload.py:16-22  the manager exists, nothing of the upload has arrived
InitUploadConc ==
    /\ cu_dir = FALSE
    /\ cu_chunks = [i \in 0..(cu_total - 1) |-> NoChunk]
    /\ cu_final = NoFile
    /\ cu_gen = 0
    /\ cu_req = [r \in Requests |-> NoRequest]
    /\ cu_observed = {}

\* os.listdir(chunk_dir) names ending in ".chunk"
CuFiles == {i \in 0..(cu_total - 1) : cu_chunks[i] # NoChunk}

\* the files of the listing whose data is not yet complete
PartFiles == {i \in CuFiles : cu_chunks[i] # ChunkBytes(i)}

\* a write of `data` at offset `off` through a descriptor of the file
Overlay(file, off, data) ==
    [k \in 1..Max(Len(file), off + Len(data)) |->
        IF k > off /\ k <= off + Len(data) THEN data[k - off]
        ELSE IF k <= Len(file) THEN file[k] ELSE 0]

\* an exception leaves the handler: HTTP 500
Failed(r, how) == [cu_req EXCEPT ![r].pc = "done", ![r].result = how]

\* upload.py:28-29  save_chunk: os.makedirs(chunk_dir, exist_ok=True)
SaveMakedirs(r) ==
    /\ cu_req[r].pc = "new"
    /\ cu_dir' = TRUE
    /\ cu_req' = [cu_req EXCEPT ![r].pc = "mkdir"]
    /\ UNCHANGED <<cu_chunks, cu_final, cu_gen, cu_observed>>
    /\ UNCHANGED notCu

\* upload.py:32, video.py:77-79  open(chunk_path, "wb") creates the file empty; in a
\* directory removed meanwhile it raises
SaveOpen(r) ==
    /\ cu_req[r].pc = "mkdir"
    /\ IF cu_dir
         THEN /\ cu_chunks' = [cu_chunks EXCEPT ![ChunkOf(r)] = <<>>]
              /\ cu_req' = [cu_req EXCEPT ![r].pc = "opened"]
         ELSE /\ cu_req' = Failed(r, "save_failed")
              /\ UNCHANGED cu_chunks
    /\ UNCHANGED <<cu_dir, cu_final, cu_gen, cu_observed>>
    /\ UNCHANGED notCu

\* upload.py:33  f.write(data) and the close: the bytes reach the file one part after
\* another; a file unlinked meanwhile takes them unseen
SaveWrite(r) ==
    /\ cu_req[r].pc = "opened"
    /\ LET n == cu_req[r].written + 1
           i == ChunkOf(r)
       IN /\ cu_chunks' = IF cu_chunks[i] = NoChunk THEN cu_chunks
                          ELSE [cu_chunks EXCEPT ![i] = SubSeq(ChunkBytes(i), 1, n)]
          /\ cu_req' = [cu_req EXCEPT ![r].written = n,
                                      ![r].pc = IF n = Len(ChunkBytes(i)) THEN "saved"
                                                ELSE "opened"]
    /\ UNCHANGED <<cu_dir, cu_final, cu_gen, cu_observed>>
    /\ UNCHANGED notCu

\* upload.py:35-44  is_upload_complete, counting the names of the listing
cu_is_upload_complete == cu_dir /\ Cardinality(CuFiles) = cu_total

\* video.py:81-85, 131  back on the loop: is_upload_complete, then assemble_file is
\* handed to a thread, or the chunk receipt is returned
HandlerCheck(r) ==
    /\ cu_req[r].pc = "saved"
    /\ IF cu_is_upload_complete
         THEN /\ cu_req' = [cu_req EXCEPT ![r].pc = "asm_open"]
              /\ cu_observed' = cu_observed \cup
                     (IF PartFiles # {} THEN {"is_upload_complete"} ELSE {})
         ELSE /\ cu_req' = [cu_req EXCEPT ![r].pc = "done", ![r].result = "receipt"]
              /\ UNCHANGED cu_observed
    /\ UNCHANGED <<cu_dir, cu_chunks, cu_final, cu_gen>>
    /\ UNCHANGED notCu

\* upload.py:53  open(final_path, "wb"): an existing file is truncated, else created
AsmOpen(r) ==
    /\ cu_req[r].pc = "asm_open"
    /\ cu_final' = <<>>
    /\ cu_gen' = IF cu_final = NoFile THEN cu_gen + 1 ELSE cu_gen
    /\ cu_req' = [cu_req EXCEPT ![r].pc = "asm_read", ![r].fd = cu_gen', ![r].asm_i = 0,
                                ![r].off = 0]
    /\ UNCHANGED <<cu_dir, cu_chunks, cu_observed>>
    /\ UNCHANGED notCu

\* upload.py:54-58  chunk asm_i: copied at this descriptor's offset when its file
\* exists, skipped when not; after the last one the final file is closed
AsmRead(r) ==
    /\ cu_req[r].pc = "asm_read"
    /\ LET i == cu_req[r].asm_i
           data == IF cu_chunks[i] # NoChunk THEN cu_chunks[i] ELSE <<>>
           seen == cu_final # NoFile /\ cu_req[r].fd = cu_gen
       IN /\ cu_final' = IF seen THEN Overlay(cu_final, cu_req[r].off, data) ELSE cu_final
          /\ cu_req' = [cu_req EXCEPT ![r].asm_i = i + 1,
                                      ![r].off = @ + Len(data),
                                      ![r].pc = IF i + 1 = cu_total THEN "asm_list"
                                                ELSE "asm_read"]
          /\ cu_observed' = cu_observed \cup
                 (IF i \in PartFiles THEN {"assemble_file"} ELSE {})
    /\ UNCHANGED <<cu_dir, cu_chunks, cu_gen>>
    /\ UNCHANGED notCu

\* upload.py:60, video.py:86-88  os.listdir(chunk_dir) raises without the directory
AsmList(r) ==
    /\ cu_req[r].pc = "asm_list"
    /\ cu_req' = IF cu_dir
                   THEN [cu_req EXCEPT ![r].listed = CuFiles,
                                       ![r].pc = IF CuFiles = {} THEN "asm_rmdir"
                                                 ELSE "asm_remove"]
                   ELSE Failed(r, "assembly_failed")
    /\ UNCHANGED <<cu_dir, cu_chunks, cu_final, cu_gen, cu_observed>>
    /\ UNCHANGED notCu

\* upload.py:60-61  os.remove of the next listed name raises when it is gone
AsmRemove(r) ==
    /\ cu_req[r].pc = "asm_remove"
    /\ \E i \in cu_req[r].listed :
         IF cu_chunks[i] # NoChunk
           THEN /\ cu_chunks' = [cu_chunks EXCEPT ![i] = NoChunk]
                /\ cu_req' = [cu_req EXCEPT ![r].listed = @ \ {i},
                                  ![r].pc = IF cu_req[r].listed = {i} THEN "asm_rmdir"
                                            ELSE "asm_remove"]
           ELSE /\ cu_req' = Failed(r, "assembly_failed")
                /\ UNCHANGED cu_chunks
    /\ UNCHANGED <<cu_dir, cu_final, cu_gen, cu_observed>>
    /\ UNCHANGED notCu

\* upload.py:62-64  os.rmdir raises on a missing or a non-empty directory
AsmRmdir(r) ==
    /\ cu_req[r].pc = "asm_rmdir"
    /\ IF cu_dir /\ CuFiles = {}
         THEN /\ cu_dir' = FALSE
              /\ cu_req' = [cu_req EXCEPT ![r].pc = "info"]
         ELSE /\ cu_req' = Failed(r, "assembly_failed")
              /\ UNCHANGED cu_dir
    /\ UNCHANGED <<cu_chunks, cu_final, cu_gen, cu_observed>>
    /\ UNCHANGED notCu

\* video.py:90-129  the assembled file decodes and its metadata is returned, or it
\* does not, is removed and the request rejected
HandlerRespond(r) ==
    /\ cu_req[r].pc = "info"
    /\ \/ /\ cu_req' = [cu_req EXCEPT ![r].pc = "done", ![r].result = "metadata"]
          /\ UNCHANGED cu_final
       \/ /\ cu_req' = [cu_req EXCEPT ![r].pc = "done", ![r].result = "rejected"]
          /\ cu_final' = NoFile
    /\ UNCHANGED <<cu_dir, cu_chunks, cu_gen, cu_observed>>
    /\ UNCHANGED notCu

\* video.py:35-46, upload.py:66-75  GET /upload/status: get_missing_chunks
UploadStatus ==
    /\ \E r \in Requests : cu_req[r].pc # "done"
    /\ cu_observed' = cu_observed \cup
           (IF cu_dir /\ PartFiles # {} THEN {"get_missing_chunks"} ELSE {})
    /\ UNCHANGED <<cu_dir, cu_chunks, cu_final, cu_gen, cu_req>>
    /\ UNCHANGED notCu

RequestStep(r) ==
    \/ SaveMakedirs(r)
    \/ SaveOpen(r)
    \/ SaveWrite(r)
    \/ HandlerCheck(r)
    \/ AsmOpen(r)
    \/ AsmRead(r)
    \/ AsmList(r)
    \/ AsmRemove(r)
    \/ AsmRmdir(r)
    \/ HandlerRespond(r)

NextUploadConc ==
    \/ \E r \in Requests : RequestStep(r)
    \/ UploadStatus

\* ======================================================================
\*  The frame pipeline of one render         backend/media/blur_manager.py
\*
\*  A cue is [text, start, end] with its times in units of 1 / TimeUnit
\*  second; fps is a whole number, so start * fps is an exact multiple of
\*  1 / TimeUnit frame and int() of it is exact.  A frame is its index and
\*  the ROI that was blurred in it (<<>> when it is as the capture gave it).
\* ======================================================================

\* bounds of the frame pipeline
TimeUnit == 4
MaxCues == 2
MaxPipeFrames == 3

\* blur_manager.py:130-131  queue.Queue(maxsize=30)
PipeQueueMax == 30

\* int(x) for x = n / d, d > 0: truncation toward zero
Trunc(n, d) == IF n >= 0 THEN n \div d ELSE -((-n) \div d)

\* blur_manager.py:111  fps = cap.get(cv2.CAP_PROP_FPS) or 25.0
FpsOrDefault(fps) == IF fps = 0 THEN 25 ELSE fps

\* blur_manager.py:125  start_f = max(0, start_f - 1)
PlanStart(start_f) == Max(0, start_f - 1)

PlanEndNoMargin(end_f, frames) == end_f + 1

\* blur_manager.py:126  end_f = min(total_frames + 5, end_f + 1)
PlanEnd(end_f, frames) == Min(frames + 5, end_f + 1)

\* the video and the blur settings of the render: width, height, BlurSettings
PlanVideo ==
    [width |-> 640, height |-> 480,
     settings |-> [y |-> 430, font_size |-> 21, padding_x |-> 40, padding_y |-> 20,
                   width_multiplier |-> 10]]

\* blur_manager.py:119-127  one cue's frames and its ROI; a cue whose stripped
\* text is empty is skipped
CueRange(sub, fps, frames) ==
    IF Strip(sub.text) = <<>> THEN {}
    ELSE PlanStart(Trunc(sub.start * fps, TimeUnit))
            .. (PlanEnd(Trunc(sub.end * fps, TimeUnit), frames) - 1)

CueRoi(sub) ==
    calculate_blur_roi(Strip(sub.text), PlanVideo.width, PlanVideo.height, PlanVideo.settings)

\* blur_manager.py:117-128  the loop over the subtitles: a later cue overwrites
\* the entries of an earlier one
RECURSIVE BuildBlurMap(_, _, _, _)
BuildBlurMap(subs, fps, frames, map) ==
    IF subs = <<>> THEN map
    ELSE LET range == CueRange(Head(subs), fps, frames)
             roi == CueRoi(Head(subs))
         IN  BuildBlurMap(Tail(subs), fps, frames,
                          [f \in (DOMAIN map) \cup range |->
                              IF f \in range THEN roi ELSE map[f]])

\* the frame the capture delivers at index i
Frame(i) == [idx |-> i, blur |-> <<>>]

\* the None that ends a queue
PipeEnd == [idx |-> -1, blur |-> <<>>]

\* blur_effects.py:213-233  nothing is drawn into an ROI without area
apply_blur_to_frame(frame, roi) ==
    IF roi[3] <= 0 \/ roi[4] <= 0 THEN frame ELSE [frame EXCEPT !.blur = roi]

PutFront(q, x) == <<x>> \o q

\* queue.Queue.put: first in, first out
Put(q, x) == Append(q, x)

\* blur_manager.py:161-163  the processor's treatment of one item
ProcessFrame(item, map) ==
    IF item.idx \in DOMAIN map THEN apply_blur_to_frame(item, map[item.idx]) ELSE item

CueTexts == {<<>>, <<" ">>, <<"narrow">>, <<"wide", "upper", "\n">>}
CueTimes == {-3, -1, 0, 5, 17}
Cues == [text : CueTexts, start : CueTimes, end : CueTimes]
SubtitleLists == UNION {[1..n -> Cues] : n \in 0..MaxCues}

\* the subtitle lists of the pipeline runs: none, one cue, two cues that overlap
PipeSubtitles ==
    { <<>>,
      <<[text |-> <<"narrow">>, start |-> 5, end |-> 5]>>,
      <<[text |-> <<"narrow">>, start |-> 0, end |-> 5],
        [text |-> <<"wide", "upper", "\n">>, start |-> 5, end |-> 17]>> }

PipeThreads == {"reader", "processor", "writer"}

IdlePipeline ==
    /\ pl_in = [subs |-> <<>>, fps |-> 0, total_frames |-> 0, nframes |-> 0]
    /\ frame_blur_map = <<>>
    /\ read_queue = <<>>
    /\ write_queue = <<>>
    /\ exception_queue = <<>>
    /\ task_stop = FALSE
    /\ pl_stop_event = FALSE
    /\ pl_pc = [main |-> "off", reader |-> "off", processor |-> "off", writer |-> "off"]
    /\ frame_idx = 0
    /\ pl_item = PipeEnd
    /\ pl_written = <<>>

\* blur_manager.py:109-115  the capture is open, nothing is planned yet
PipelineAt(input) ==
    /\ pl_in = input
    /\ frame_blur_map = <<>>
    /\ read_queue = <<>>
    /\ write_queue = <<>>
    /\ exception_queue = <<>>
    /\ task_stop = FALSE
    /\ pl_stop_event = FALSE
    /\ pl_pc = [main |-> "plan", reader |-> "off", processor |-> "off", writer |-> "off"]
    /\ frame_idx = 0
    /\ pl_item = PipeEnd
    /\ pl_written = <<>>

InitPlan ==
    \E input \in [subs : SubtitleLists, fps : {0, 1, 2}, total_frames : {0, MaxPipeFrames},
                  nframes : {0}] : PipelineAt(input)

\* short videos, of which the capture may deliver fewer or more frames than
\* CAP_PROP_FRAME_COUNT announces, and one video without cues that is long
\* enough to fill a queue
InitPipeline ==
    \E input \in [subs : PipeSubtitles, fps : {1}, total_frames : {MaxPipeFrames - 1},
                  nframes : {0, MaxPipeFrames - 1, MaxPipeFrames}]
                 \cup {[subs |-> <<>>, fps |-> 1, total_frames |-> PipeQueueMax + 1,
                        nframes |-> PipeQueueMax + 1]} : PipelineAt(input)

\* blur_manager.py:117-128
PipeBuildPlan ==
    /\ pl_pc.main = "plan"
    /\ frame_blur_map' = BuildBlurMap(pl_in.subs, FpsOrDefault(pl_in.fps), pl_in.total_frames, <<>>)
    /\ pl_pc' = [pl_pc EXCEPT !.main = "start"]
    /\ UNCHANGED <<pl_in, read_queue, write_queue, exception_queue, task_stop, pl_stop_event,
                   frame_idx, pl_item, pl_written>>
    /\ UNCHANGED notPipe

\* blur_manager.py:191-193  the three threads are started
PipeStart ==
    /\ pl_pc.main = "start"
    /\ pl_pc' = [main |-> "monitor", reader |-> "loop", processor |-> "loop", writer |-> "loop"]
    /\ UNCHANGED <<pl_in, frame_blur_map, read_queue, write_queue, exception_queue, task_stop,
                   pl_stop_event, frame_idx, pl_item, pl_written>>
    /\ UNCHANGED notPipe

\* the threads' loop test: not task_stop.is_set() and not self._stop_event.is_set()
PipeMayRun == ~task_stop /\ ~pl_stop_event

\* an exception in a thread: it is queued and the thread ends
PipeFails(t) ==
    /\ exception_queue' = Append(exception_queue, t)
    /\ pl_pc' = [pl_pc EXCEPT ![t] = "failed"]

\* blur_manager.py:137-142  the loop test and cap.read()
PipeReaderLoop ==
    /\ pl_pc.reader = "loop"
    /\ \/ /\ pl_pc' = [pl_pc EXCEPT !.reader =
                          IF PipeMayRun /\ frame_idx < pl_in.nframes THEN "put" ELSE "put_end"]
          /\ UNCHANGED exception_queue
       \/ PipeMayRun /\ PipeFails("reader")
    /\ UNCHANGED <<pl_in, frame_blur_map, read_queue, write_queue, task_stop, pl_stop_event,
                   frame_idx, pl_item, pl_written>>
    /\ UNCHANGED notPipe

\* blur_manager.py:143-144  read_queue.put((frame_idx, frame)) waits for room
PipeReaderPut ==
    /\ pl_pc.reader = "put"
    /\ Len(read_queue) < PipeQueueMax
    /\ read_queue' = Put(read_queue, Frame(frame_idx))
    /\ frame_idx' = frame_idx + 1
    /\ pl_pc' = [pl_pc EXCEPT !.reader = "loop"]
    /\ UNCHANGED <<pl_in, frame_blur_map, write_queue, exception_queue, task_stop,
                   pl_stop_event, pl_item, pl_written>>
    /\ UNCHANGED notPipe

\* blur_manager.py:145  read_queue.put(None)
PipeReaderEnd ==
    /\ pl_pc.reader = "put_end"
    /\ Len(read_queue) < PipeQueueMax
    /\ read_queue' = Put(read_queue, PipeEnd)
    /\ pl_pc' = [pl_pc EXCEPT !.reader = "ended"]
    /\ UNCHANGED <<pl_in, frame_blur_map, write_queue, exception_queue, task_stop,
                   pl_stop_event, frame_idx, pl_item, pl_written>>
    /\ UNCHANGED notPipe

\* blur_manager.py:151-163  the loop test, read_queue.get(timeout=1.0) and the
\* blur of a planned frame; an empty queue sends the thread round its loop
PipeProcessorLoop ==
    /\ pl_pc.processor = "loop"
    /\ \/ /\ ~PipeMayRun
          /\ pl_pc' = [pl_pc EXCEPT !.processor = "ended"]
          /\ UNCHANGED <<read_queue, pl_item, exception_queue>>
       \/ /\ PipeMayRun /\ read_queue # <<>>
          /\ read_queue' = Tail(read_queue)
          /\ \/ /\ pl_item' = IF Head(read_queue) = PipeEnd THEN PipeEnd
                              ELSE ProcessFrame(Head(read_queue), frame_blur_map)
                /\ pl_pc' = [pl_pc EXCEPT !.processor =
                                IF Head(read_queue) = PipeEnd THEN "put_end" ELSE "put"]
                /\ UNCHANGED exception_queue
             \/ /\ Head(read_queue) # PipeEnd
                /\ Head(read_queue).idx \in DOMAIN frame_blur_map
                /\ PipeFails("processor")
                /\ UNCHANGED pl_item
    /\ UNCHANGED <<pl_in, frame_blur_map, write_queue, task_stop, pl_stop_event, frame_idx,
                   pl_written>>
    /\ UNCHANGED notPipe

\* blur_manager.py:165-168  write_queue.put(frame) waits for room
PipeProcessorPut ==
    /\ pl_pc.processor = "put"
    /\ Len(write_queue) < PipeQueueMax
    /\ write_queue' = Put(write_queue, pl_item)
    /\ pl_pc' = [pl_pc EXCEPT !.processor = "loop"]
    /\ UNCHANGED <<pl_in, frame_blur_map, read_queue, exception_queue, task_stop,
                   pl_stop_event, frame_idx, pl_item, pl_written>>
    /\ UNCHANGED notPipe

\* blur_manager.py:157-159  the end marker is passed on and the thread ends
PipeProcessorEnd ==
    /\ pl_pc.processor = "put_end"
    /\ Len(write_queue) < PipeQueueMax
    /\ write_queue' = Put(write_queue, PipeEnd)
    /\ pl_pc' = [pl_pc EXCEPT !.processor = "ended"]
    /\ UNCHANGED <<pl_in, frame_blur_map, read_queue, exception_queue, task_stop,
                   pl_stop_event, frame_idx, pl_item, pl_written>>
    /\ UNCHANGED notPipe

\* blur_manager.py:172-182  the loop test, write_queue.get(timeout=1.0) and
\* writer.write(frame)
PipeWriterLoop ==
    /\ pl_pc.writer = "loop"
    /\ \/ /\ ~PipeMayRun
          /\ pl_pc' = [pl_pc EXCEPT !.writer = "ended"]
          /\ UNCHANGED <<write_queue, pl_written, exception_queue>>
       \/ /\ PipeMayRun /\ write_queue # <<>>
          /\ write_queue' = Tail(write_queue)
          /\ \/ /\ pl_written' = IF Head(write_queue) = PipeEnd THEN pl_written
                                 ELSE Append(pl_written, Head(write_queue))
                /\ pl_pc' = [pl_pc EXCEPT !.writer =
                                IF Head(write_queue) = PipeEnd THEN "ended" ELSE "loop"]
                /\ UNCHANGED exception_queue
             \/ /\ Head(write_queue) # PipeEnd
                /\ PipeFails("writer")
                /\ UNCHANGED pl_written
    /\ UNCHANGED <<pl_in, frame_blur_map, read_queue, task_stop, pl_stop_event, frame_idx,
                   pl_item>>
    /\ UNCHANGED notPipe

\* blur_manager.py:195-196, 203-204  while t_write.is_alive(): sleep; after the
\* loop the pipeline has run to its end
PipeMonitorTest ==
    /\ pl_pc.main = "monitor"
    /\ pl_pc' = [pl_pc EXCEPT !.main = IF pl_pc.writer = "loop" THEN "sleep" ELSE "finally"]
    /\ UNCHANGED <<pl_in, frame_blur_map, read_queue, write_queue, exception_queue, task_stop,
                   pl_stop_event, frame_idx, pl_item, pl_written>>
    /\ UNCHANGED notPipe

\* blur_manager.py:197-201, 206-209  after the sleep: a stop or a queued
\* exception is raised, and the handler sets task_stop
PipeMonitorWake ==
    /\ pl_pc.main = "sleep"
    /\ IF pl_stop_event
         THEN /\ task_stop' = TRUE
              /\ pl_pc' = [pl_pc EXCEPT !.main = "finally_raise"]
              /\ UNCHANGED exception_queue
         ELSE IF exception_queue # <<>>
                THEN /\ task_stop' = TRUE
                     /\ exception_queue' = Tail(exception_queue)
                     /\ pl_pc' = [pl_pc EXCEPT !.main = "finally_raise"]
                ELSE /\ pl_pc' = [pl_pc EXCEPT !.main = "monitor"]
                     /\ UNCHANGED <<task_stop, exception_queue>>
    /\ UNCHANGED <<pl_in, frame_blur_map, read_queue, write_queue, pl_stop_event, frame_idx,
                   pl_item, pl_written>>
    /\ UNCHANGED notPipe

\* blur_manager.py:210-218  finally: task_stop is set, capture and writer are
\* released and both queues are emptied
PipeFinally ==
    /\ pl_pc.main \in {"finally", "finally_raise"}
    /\ task_stop' = TRUE
    /\ read_queue' = <<>>
    /\ write_queue' = <<>>
    /\ pl_pc' = [pl_pc EXCEPT !.main = IF pl_pc.main = "finally" THEN "written" ELSE "raised"]
    /\ UNCHANGED <<pl_in, frame_blur_map, exception_queue, pl_stop_event, frame_idx, pl_item,
                   pl_written>>
    /\ UNCHANGED notPipe

\* blur_manager.py:34-39  stop() of another request sets _stop_event
PipeStop ==
    /\ pl_pc.main \in {"plan", "start", "monitor", "sleep"}
    /\ ~pl_stop_event
    /\ pl_stop_event' = TRUE
    /\ UNCHANGED <<pl_in, frame_blur_map, read_queue, write_queue, exception_queue, task_stop,
                   pl_pc, frame_idx, pl_item, pl_written>>
    /\ UNCHANGED notPipe

NextPlan == PipeBuildPlan

NextPipeline ==
    \/ PipeBuildPlan \/ PipeStart \/ PipeStop
    \/ PipeReaderLoop \/ PipeReaderPut \/ PipeReaderEnd
    \/ PipeProcessorLoop \/ PipeProcessorPut \/ PipeProcessorEnd
    \/ PipeWriterLoop
    \/ PipeMonitorTest \/ PipeMonitorWake \/ PipeFinally

\* ======================================================================
\*  Specifications
\* ======================================================================

Init == InitPM /\ IdleWK /\ InitRD /\ InitBus /\ InitAgg /\ IdleSrt /\ IdleUpload /\ InitEngine /\ IdleRoi /\ IdleBatch /\ IdleUploadConc /\ IdlePipeline

Next == NextPM

Spec == Init /\ [][Next]_vars

SpecLive == Init /\ [][Next]_vars /\ FairPM

InitWorker == InitPM /\ InitWK /\ InitRD /\ InitBus /\ InitAgg /\ IdleSrt /\ IdleUpload /\ InitEngine /\ IdleRoi /\ IdleBatch /\ IdleUploadConc /\ IdlePipeline

SpecWorker == InitWorker /\ [][NextWK]_vars

InitBacklogRun ==
    /\ InitPM /\ InitBacklog /\ InitRD /\ InitBus /\ InitAgg /\ IdleSrt /\ IdleUpload /\ InitEngine
    /\ IdleRoi /\ IdleBatch /\ IdleUploadConc /\ IdlePipeline

SpecBacklog == InitBacklogRun /\ [][NextBacklog]_vars

\* the producer thread keeps running: the decoder read and the image pipeline return
SpecBacklogLive == InitBacklogRun /\ [][NextBacklog]_vars /\ WF_vars(ProducerStep)

InitRender == InitPM /\ IdleWK /\ InitRD /\ InitBus /\ InitAgg /\ IdleSrt /\ IdleUpload /\ InitEngine /\ IdleRoi /\ IdleBatch /\ IdleUploadConc /\ IdlePipeline

SpecRender == InitRender /\ [][NextRD]_vars

SpecBus == Init /\ [][NextBus]_vars

SpecAgg == Init /\ [][NextAgg]_vars

InitSrtRun == InitPM /\ IdleWK /\ InitRD /\ InitBus /\ InitAgg /\ InitSrt /\ IdleUpload /\ InitEngine /\ IdleRoi /\ IdleBatch /\ IdleUploadConc /\ IdlePipeline

SpecSrt == InitSrtRun /\ [][NextSrt]_vars

InitUploadRun == InitPM /\ IdleWK /\ InitRD /\ InitBus /\ InitAgg /\ IdleSrt /\ InitUpload /\ InitEngine /\ IdleRoi /\ IdleBatch /\ IdleUploadConc /\ IdlePipeline

SpecUpload == InitUploadRun /\ [][NextUpload]_vars

SpecEngine == Init /\ [][NextEngine]_vars

InitRoiRun ==
    /\ InitPM /\ IdleWK /\ InitRD /\ InitBus /\ InitAgg /\ IdleSrt /\ IdleUpload /\ InitEngine
    /\ InitRoi /\ IdleBatch /\ IdleUploadConc /\ IdlePipeline

SpecRoi == InitRoiRun /\ [][NextRoi]_vars

InitBatchRun ==
    /\ InitPM /\ IdleWK /\ InitRD /\ InitBus /\ InitAgg /\ IdleSrt /\ IdleUpload /\ InitEngine
    /\ IdleRoi /\ InitBatch /\ IdleUploadConc /\ IdlePipeline

SpecBatch == InitBatchRun /\ [][NextBatch]_vars

InitUploadConcRun ==
    /\ InitPM /\ IdleWK /\ InitRD /\ InitBus /\ InitAgg /\ IdleSrt /\ IdleUpload /\ InitEngine
    /\ IdleRoi /\ IdleBatch /\ InitUploadConc /\ IdlePipeline

SpecUploadConc == InitUploadConcRun /\ [][NextUploadConc]_vars

InitPlanRun ==
    /\ InitPM /\ IdleWK /\ InitRD /\ InitBus /\ InitAgg /\ IdleSrt /\ IdleUpload /\ InitEngine
    /\ IdleRoi /\ IdleBatch /\ IdleUploadConc /\ InitPlan

SpecPlan == InitPlanRun /\ [][NextPlan]_vars

InitPipelineRun ==
    /\ InitPM /\ IdleWK /\ InitRD /\ InitBus /\ InitAgg /\ IdleSrt /\ IdleUpload /\ InitEngine
    /\ IdleRoi /\ IdleBatch /\ IdleUploadConc /\ InitPipeline

SpecPipeline == InitPipelineRun /\ [][NextPipeline]_vars

\* ======================================================================
\*  Properties of the ProcessManager (checked under Spec)
\* ======================================================================

\* OCR workers of session s that were started, still run and were never signalled
LiveUnsignalled(s) == {w \in Workers : wsess[w] = s /\ IsAlive(w) /\ ~wstop[w]}

\* C1: for every session, at most one started OCR worker that has not been
\* signalled to stop exists at any time, and whenever start_process has created
\* its new worker every other living worker of that session has already been
\* signalled to stop (the previous one was torn down first).
C1_OneWorkerPerSession ==
    /\ \A s \in Sessions : Cardinality(LiveUnsignalled(s)) <= 1
    /\ \A c \in Callers : cnew[c] # None =>
          \A w \in Workers \ {cnew[c]} : (wsess[w] = csess[c] /\ IsAlive(w)) => wstop[w]

\* start_process found a worker registered, tore it down and started the new one
C1_Witness ==
    \E c \in Callers :
        /\ cop[c] = "start" /\ cactive[c] /\ cpc[c] = "rel_session"
        /\ wstatus[cnew[c]] = "running" /\ ~wstop[cnew[c]]

\* positions inside "with session_lock:"
InSessionSection(c) ==
    cpc[c] \in {"sp_check_acq", "sp_check", "sw_pop_acq", "sw_pop", "sw_alive", "sw_stop",
                "sw_join", "sw_ret", "sp_remove", "sp_create", "sp_reg_acq", "sp_reg",
                "sp_start", "rel_session"}

\* positions where the caller signals, joins, removes the file, constructs or starts
InWorkerIO(c) ==
    cpc[c] \in {"sw_alive", "sw_stop", "sw_join", "sw_ret", "sp_remove", "sp_create",
                "sp_start"}

\* C5: calls for one session run their teardown+create section one at a time, the
\* session lock being held from the first registry lookup until after
\* worker.start(); a caller waiting for a session lock is only ever kept waiting
\* by a caller of the same session; and the registry lock is held only inside the
\* map lookups/updates, never while a worker is stopped, joined, the output file
\* removed or a worker constructed or started.
C5_SessionSerialization ==
    /\ \A c \in Callers : InSessionSection(c) => lock_holder[clock[c]] = c
    /\ \A c, d \in Callers :
          (c # d /\ InSessionSection(c) /\ InSessionSection(d)) => csess[c] # csess[d]
    /\ \A c \in Callers :
          (cpc[c] = "acq_session" /\ lock_holder[clock[c]] # None) =>
              csess[lock_holder[clock[c]]] = csess[c]
    /\ \A c \in Callers : InWorkerIO(c) => registry_lock # c
    /\ \A c \in Callers :
          registry_lock = c => cpc[c] \in {"gsl_body", "sp_check", "sw_pop", "sp_reg"}

\* one caller is joining a worker of its session while a caller of the other
\* session is starting its worker, with the registry lock free
C5_Witness ==
    \E c, d \in Callers :
        /\ cpc[c] = "sw_join" /\ cpc[d] = "sp_start"
        /\ csess[c] # csess[d]
        /\ registry_lock = None

\* C6: teardown signals the worker before joining, makes at most max_attempts (3)
\* timed joins, each of which returns whether or not the worker has exited, has
\* removed the registry entry before it signals, and leaves the join loop with the
\* worker still alive only after the third join.
C6_BoundedTeardown ==
    \A c \in Callers :
        /\ cattempt[c] <= max_attempts
        /\ cpc[c] = "sw_join" =>
              /\ wstop[cworker[c]]
              /\ cattempt[c] < max_attempts
              /\ ENABLED SwJoin(c)
        /\ cpc[c] \in {"sw_alive", "sw_stop", "sw_join", "sw_ret"} /\ cworker[c] # None =>
              workers_registry[csess[c]] # cworker[c]
        /\ (cpc[c] = "sw_ret" /\ cworker[c] # None /\ IsAlive(cworker[c])) =>
              cattempt[c] = max_attempts

\* start_process has started its new worker while the abandoned one is still alive
C6_Witness ==
    \E c \in Callers :
        /\ cop[c] = "start" /\ cpc[c] = "rel_session"
        /\ wstatus[cnew[c]] = "running"
        /\ workers_registry[csess[c]] = cnew[c]
        /\ \E w \in Workers \ {cnew[c]} : wsess[w] = csess[c] /\ IsAlive(w) /\ wstop[w]

\* C19: while the worker started last for a session is running and has not written
\* its output, no SRT file exists for that session: the file of an earlier run was
\* removed before the start, and no earlier worker writes it afterwards.
C19_NoStaleArtifact ==
    \A s \in Sessions :
        (workers_registry[s] # None /\ IsAlive(workers_registry[s])) => ~srt_exists[s]

\* C22: a session's registry entry exists only while the
\* session owns a worker that is still running; once a worker has finished, by
\* being stopped or by itself, the registry holds no entry for it.
C22_NoEntryForFinishedWorker ==
    \A s \in Sessions :
        workers_registry[s] # None => wstatus[workers_registry[s]] # "dead"

\* ======================================================================
\*  Properties of one OCRWorker (checked under SpecWorker)
\* ======================================================================

\* C2: a worker whose run() has returned has published exactly one finish event
\* and no event after it, whatever the exit path.
C2_ExactlyOneFinish ==
    kpc = "done" => (Len(finish_events) = 1 /\ ~event_after_finish)

\* C3: when stop() began before the worker had published a finish event, the
\* finish event the worker publishes carries success = false and the worker has
\* written no SRT file.
C3_StoppedMeansNoArtifact ==
    stop_before_finish =>
        /\ \A i \in 1..Len(finish_events) : finish_events[i] = FALSE
        /\ ~srt_written

\* C4: once the manager has signalled the worker and the worker thread has
\* terminated, the worker has published its finish event and holds no open decoder.
C4_StoppedWorkerFinished ==
    (spc \in {"set_event", "drain", "done"} /\ kpc = "done") =>
        (Len(finish_events) = 1 /\ vstate # "open")

\* C36: once video.release() has been called the producer has left its iteration of
\* the reader: it is not started, is putting its sentinel, or has ended.
C36_ReleaseAfterProducerStopped ==
    vstate = "released" => ppc \in {"off", "sentinel", "done"}

\* the consumer's poll of the frame queue found it empty
EmptyPoll == kpc = "get" /\ kpc' # "get" /\ frame_queue = <<>>

\* C29: the watchdog fires exactly on an empty poll made more than 45 s after the
\* last received item or batch flush; the worker then publishes finish(False) as
\* its only finish event, writes no SRT file and runs its teardown.
C29_Watchdog ==
    /\ [](timed_out => /\ kpc \in {"except", "fin", "drain", "done"}
                       /\ ~srt_written
                       /\ finish_events \in {<<>>, <<FALSE>>})
    /\ [](timed_out /\ kpc = "done" => /\ finish_events = <<FALSE>>
                                       /\ ~is_running
                                       /\ stop_event
                                       /\ vstate = "released")
    /\ [][/\ (timed_out' /\ ~timed_out) => (EmptyPoll /\ since_receipt > watchdog_timeout)
          /\ (EmptyPoll /\ since_receipt > watchdog_timeout) => timed_out'
          /\ (EmptyPoll /\ since_receipt <= watchdog_timeout) => ~timed_out']_vars

C29_Witness ==
    timed_out /\ kpc = "done" /\ finish_events = <<FALSE>> /\ ppc # "done"

\* ----------------------------------------------------------------------
\*  Claims checked under SpecRender
\* ----------------------------------------------------------------------

\* the pipeline or the transcode of render job j is writing its files
Rendering(j) == render[j].pc \in {"monitor", "sleep", "transcode"}

\* C7: at any time at most one render job per client is writing its output
\* without stop() having been called on its BlurManager.
C7_OneRenderPerClient ==
    \A cl \in Clients :
        Cardinality({j \in Jobs : /\ render[j].client = cl
                                  /\ Rendering(j)
                                  /\ ~render[j].stop_called}) <= 1

\* C8: once the stop endpoint has called stop() on a registered renderer, its stop
\* event stays set, and the job's finish event reports success = false.
C8_StopNeverLost ==
    \A j \in Jobs :
        render[j].stop_called =>
            /\ render[j].stop_event
            /\ \A i \in 1..Len(render[j].finish) : ~render[j].finish[i].success

\* C9: when the only render job has ended by cancellation, neither the temp video
\* nor a file at the output path is left on disk.
C9_CancelLeavesNoFile ==
    \A j \in Jobs :
        (/\ render[j].pc = "done"
         /\ render[j].raised = "InterruptedError"
         /\ JobsCreated = {j})
            => (~temp_exists /\ ~out_exists)

C18_TranscodeChain ==
    /\ AttemptCommand(1) = [video |-> "h264_nvenc", audio |-> "copy"]
    /\ AttemptCommand(2) = [video |-> "h264_nvenc", audio |-> "aac"]
    /\ AttemptCommand(3) = [video |-> "libx264", audio |-> "aac"]
    /\ [][\A j \in Jobs :
            (/\ render[j].pc = "transcode"
             /\ (render'[j].pc # "transcode" \/ render'[j].attempt # render[j].attempt))
            => LET k == render[j].attempt
                   how == render'[j].child_exit
               IN /\ k \in 1..transcode_attempts
                  /\ (render'[j].pc = "transcode")
                        <=> (how = "nonzero" /\ k < transcode_attempts)
                  /\ render'[j].pc = "transcode" => render'[j].attempt = k + 1
                  /\ how = "zero"
                        => /\ render'[j].pc = "upload"
                           /\ render'[j].blur_returned
                           /\ ~temp_exists'
                  /\ how = "cancelled"
                        => /\ render'[j].pc = "finally"
                           /\ render'[j].raised = "InterruptedError"
                  /\ (how = "nonzero" /\ k = transcode_attempts)
                        => /\ render'[j].pc = "finally"
                           /\ render'[j].raised = "Exception"
                           /\ ~render'[j].success
                           /\ ~temp_exists'
                           /\ temp_exists => out_exists'
       ]_vars

\* a render whose third transcode attempt exited non-zero has finished with an
\* error, the temp video now being the file at the output path
C18_Witness ==
    \E j \in Jobs :
        /\ render[j].pc = "done"
        /\ render[j].child_exit = "nonzero"
        /\ render[j].raised = "Exception"
        /\ JobsCreated = {j}
        /\ out_exists
        /\ ~temp_exists

\* render task j has been scheduled and has not yet reached its finally clause
TaskRunning(j) == render[j].pc \in {"scheduled", "begin", "monitor", "sleep", "transcode", "upload"}

\* no render requested after job j is for the same client
NewestOfClient(j) ==
    \A k \in Jobs : (k > j /\ render[k].pc # "none") => render[k].client # render[j].client

\* C34: the registry maps a client to the renderer of its newest render task for
\* as long as that task runs; the end of an older task does not delete the entry.
C34_FinishRemovesOwnEntryOnly ==
    \A j \in Jobs :
        (TaskRunning(j) /\ NewestOfClient(j)) => render_registry[render[j].client] = j

\* C30: a render one of whose pipeline threads raised never reaches the transcode
\* or the upload, and never publishes finish with success = true.
C30_ThreadExceptionFailsRender ==
    \A j \in Jobs :
        render[j].thread_error =>
            /\ render[j].pc \notin {"transcode", "upload"}
            /\ ~render[j].success
            /\ \A i \in 1..Len(render[j].finish) : ~render[j].finish[i].success

\* ======================================================================
\*  Properties of the event bus (checked under SpecBus)
\* ======================================================================

\* position of an event in the worker's submission order
SubmitPos(ev) == CHOOSE i \in 1..Len(bus_submitted) : bus_submitted[i] = ev

C12_SendErrorsStayLocal ==
    /\ [][send_count' # send_count =>
            /\ (Len(bus_ready') < Len(bus_ready) /\ active_connections[BusClient] = None)
                  => UNCHANGED <<active_connections, bus_wire, bus_waiting, bus_submitted>>
            /\ last_send'.outcome = "failed"
                  => \A c \in Clients :
                        active_connections'[c] =
                            IF c = last_send'.client THEN None ELSE active_connections[c]
       ]_vars
    /\ [](~w_finished => ENABLED WorkerFinish)

\* a send to client "a" has failed and removed its mapping while client "b" stays
\* connected and the worker has not finished
C12_Witness ==
    /\ last_send = [client |-> "a", outcome |-> "failed"]
    /\ active_connections["a"] = None
    /\ active_connections["b"] # None
    /\ ~w_finished

\* C35: when a connection that is not the one mapped for its client_id ends (the
\* client has reconnected since), the mapping of the newer connection stays.
C35_OlderDisconnectKeepsNewer ==
    [][\A s \in Sockets :
          (sock_open[s] /\ ~sock_open'[s] /\ active_connections[sock_client[s]] # s) =>
              active_connections'[sock_client[s]] = active_connections[sock_client[s]]]_vars

\* ======================================================================
\*  Properties of the SubtitleAggregator (checked under SpecAgg)
\* ======================================================================

\* C13: fed strictly increasing timestamps, any two committed items a before b
\* satisfy a.end <= b.start.
C13_CommittedDisjoint ==
    \A i, j \in 1..Len(srt_data) :
        i < j => srt_data[i].end <= srt_data[j].start

\* C14: the same valid (text, conf) fed at n >= 1 increasing timestamps t1..tn and
\* then finalized gives exactly one item, from t1 to tn + frame_duration, with
\* that text.
C14_SameInputOneEvent ==
    (/\ agg_final
     /\ agg_calls >= 1
     /\ agg_uniform
     /\ agg_first[1] # <<>>
     /\ agg_first[2] >= min_conf)
        => /\ Len(srt_data) = 1
           /\ srt_data[1].start = agg_first[3]
           /\ srt_data[1].end = agg_t + frame_duration
           /\ srt_data[1].text = agg_first[1]
           /\ srt_data[1].id = 1

\* the same valid tuple was fed four times and finalized into one item
C14_Witness ==
    /\ agg_final
    /\ agg_calls >= 4
    /\ agg_uniform
    /\ agg_first[1] = <<"a", "b">>
    /\ agg_first[2] >= min_conf
    /\ Len(srt_data) = 1

\* the step is an add_result call
AddStep == agg_calls' = agg_calls + 1

\* the tuple of the add_result call just made is valid
InputValid == agg_in'[1] # <<>> /\ agg_in'[2] >= min_conf

\* the step commits the open event: one item more, made of the event's fields
Commits ==
    /\ active_event # NoEvent
    /\ Len(srt_data') = Len(srt_data) + 1
    /\ SubSeq(srt_data', 1, Len(srt_data)) = srt_data
    /\ LET item == srt_data'[Len(srt_data')]
       IN  /\ item.start = active_event.start
           /\ item.end = active_event.end
           /\ item.text = active_event.text
           /\ item.conf = active_event.max_conf

\* the event a valid tuple opens at the timestamp of the call just made
Opened ==
    [text |-> agg_in'[1], start |-> agg_t', end |-> agg_t' + frame_duration,
     max_conf |-> agg_in'[2], gap_frames |-> 0]

\* C25: there is one open event at most, and it is committed in three situations
\* only: by a valid tuple whose text is not similar to the event's (a new event is
\* opened at that timestamp), by an invalid tuple that raises gap_frames above
\* gap_tolerance, and by finalize.  A valid tuple without an open event opens one
\* with start = timestamp, end = timestamp + frame_duration and gap_frames = 0; an
\* invalid tuple without an open event changes nothing.
C25_CommitOnThreeOccasions ==
    [][ /\ srt_data' # srt_data => Commits
        /\ AddStep =>
             /\ (InputValid /\ active_event = NoEvent) =>
                   srt_data' = srt_data /\ active_event' = Opened
             /\ (InputValid /\ active_event # NoEvent
                            /\ ~is_similar(active_event.text, agg_in'[1])) =>
                   Commits /\ active_event' = Opened
             /\ (InputValid /\ active_event # NoEvent
                            /\ is_similar(active_event.text, agg_in'[1])) =>
                   srt_data' = srt_data /\ active_event' # NoEvent
             /\ (~InputValid /\ active_event = NoEvent) =>
                   srt_data' = srt_data /\ active_event' = NoEvent
             /\ (~InputValid /\ active_event # NoEvent) =>
                   IF active_event.gap_frames + 1 > gap_tolerance
                     THEN Commits /\ active_event' = NoEvent
                     ELSE srt_data' = srt_data /\ active_event' # NoEvent
        /\ (agg_final' /\ ~agg_final) =>
             /\ active_event' = NoEvent
             /\ IF active_event # NoEvent THEN Commits ELSE srt_data' = srt_data
        /\ (~AddStep /\ agg_final' = agg_final) => UNCHANGED <<srt_data, active_event>>
      ]_vars

\* a first event was committed by a dissimilar valid tuple (the second starts
\* within the gap tolerance of the first), the second by the invalid tuple that
\* exceeded the tolerance
C25_Witness ==
    /\ ~agg_final
    /\ Len(srt_data) = 2
    /\ srt_data[2].start < srt_data[1].end + frame_duration
    /\ active_event = NoEvent
    /\ agg_in # <<>> /\ agg_in[1] = <<>>

\* C26: a run of at most gap_tolerance invalid tuples leaves the event open (a
\* similar valid tuple after it extends the same event and resets gap_frames, a
\* dissimilar one commits it and opens another), the (gap_tolerance + 1)-th invalid
\* tuple in a row commits it, and invalid tuples never move the event's end, which
\* is the last valid timestamp + frame_duration.
C26_GapTolerance ==
    /\ [](active_event # NoEvent =>
            /\ active_event.gap_frames = agg_run
            /\ agg_run <= gap_tolerance
            /\ active_event.end = agg_valid_t + frame_duration)
    /\ [][ (AddStep /\ active_event # NoEvent) =>
             /\ (~InputValid /\ agg_run < gap_tolerance) =>
                   /\ srt_data' = srt_data
                   /\ active_event' = [active_event EXCEPT !.gap_frames = @ + 1]
             /\ (~InputValid /\ agg_run = gap_tolerance) =>
                   /\ Commits
                   /\ active_event' = NoEvent
                   /\ srt_data'[Len(srt_data')].end = agg_valid_t + frame_duration
             /\ (InputValid /\ is_similar(active_event.text, agg_in'[1])) =>
                   /\ srt_data' = srt_data
                   /\ active_event'.start = active_event.start
                   /\ active_event'.gap_frames = 0
                   /\ active_event'.end = agg_t' + frame_duration
             /\ (InputValid /\ ~is_similar(active_event.text, agg_in'[1])) =>
                   /\ Commits
                   /\ srt_data'[Len(srt_data')].end = agg_valid_t + frame_duration
                   /\ active_event' = Opened
         ]_vars

\* an event outlived gap_tolerance invalid tuples and was then extended by a
\* similar valid one
C26_Witness ==
    /\ active_event # NoEvent
    /\ srt_data = <<>>
    /\ agg_calls = gap_tolerance + 2
    /\ agg_run = 0
    /\ active_event.end >= active_event.start + frame_duration + gap_tolerance + 1

\* the highest confidence among the tuples merged into the open event
MaxMergedConf == CHOOSE c \in {m[2] : m \in agg_merged} : \A m \in agg_merged : m[2] <= c

\* C27: a similar valid tuple that extends the open event replaces the text iff
\* conf > max_conf or (conf = max_conf and its text is longer), and max_conf becomes
\* the larger of the two; so an item is committed with the highest confidence of
\* the valid tuples merged into it and with the text of one of those that had it.
C27_BestTextKept ==
    /\ [](active_event # NoEvent =>
            /\ agg_merged # {}
            /\ active_event.max_conf = MaxMergedConf
            /\ <<active_event.text, active_event.max_conf>> \in agg_merged)
    /\ [][ /\ (AddStep /\ InputValid /\ active_event # NoEvent
                       /\ is_similar(active_event.text, agg_in'[1])) =>
                LET text == agg_in'[1]
                    conf == agg_in'[2]
                    adopt == \/ conf > active_event.max_conf
                             \/ conf = active_event.max_conf /\ Len(text) > Len(active_event.text)
                IN  /\ active_event'.text = IF adopt THEN text ELSE active_event.text
                    /\ active_event'.max_conf = IF conf > active_event.max_conf
                                                  THEN conf ELSE active_event.max_conf
           /\ srt_data' # srt_data =>
                /\ srt_data'[Len(srt_data')].conf = MaxMergedConf
                /\ <<srt_data'[Len(srt_data')].text, MaxMergedConf>> \in agg_merged
         ]_vars

\* the event took the longer text at equal confidence, then the more confident
\* one, and kept it against a weaker similar tuple
C27_Witness ==
    /\ active_event # NoEvent
    /\ agg_merged = {<< <<"a", "b">>, 90 >>, << <<"a", "b", "c">>, 90 >>,
                     << <<"a", "b", "c">>, 95 >>}
    /\ agg_in = << <<"a", "b">>, 90 >>
    /\ active_event.text = <<"a", "b", "c">>
    /\ active_event.max_conf = 95

\* C28: a commit gives its item the id (items committed before + 1) and calls
\* on_new_subtitle once for it before add_result or finalize returns: the ids are
\* 1..N in order, the items emitted are the committed items in id order, and the
\* list handed to _save_to_file is the sequence of items emitted.
C28_DenseIdsEmittedInOrder ==
    /\ \A i \in 1..Len(srt_data) : srt_data[i].id = i
    /\ agg_emitted = srt_data
    /\ agg_saved.called => agg_saved.srt_data = agg_emitted

\* two items were committed, emitted and handed to _save_to_file
C28_Witness ==
    /\ agg_saved.called
    /\ Len(agg_saved.srt_data) >= 2
    /\ Len(agg_emitted) >= 2

\* ======================================================================
\*  Properties of the SRT writer and parser (checked under SpecSrt)
\* ======================================================================

\* C15: a committed list written by _save_to_file and read back by parse_srt has
\* the same number of items in the same order, with the same id and text and with
\* start and end within 1 ms of the originals.
C15_SrtRoundTrip ==
    srt_pc = "parsed" =>
        /\ Len(srt_parsed) = Len(srt_items)
        /\ \A i \in 1..Len(srt_items) :
              /\ srt_parsed[i].id = srt_items[i].id
              /\ srt_parsed[i].text = srt_items[i].text
              /\ srt_items[i].start - srt_parsed[i].start \in -2..2
              /\ srt_items[i].end - srt_parsed[i].end \in -2..2

\* ======================================================================
\*  Properties of the chunked upload (checked under SpecUpload)
\* ======================================================================

\* the byte stream: the chunks of the split joined in index order
RECURSIVE Stream(_)
Stream(n) == IF n = 0 THEN <<>> ELSE Stream(n - 1) \o up_split[n]

\* C16: when only the indices 0..N-1 of a split were saved, in any order and with
\* re-sends, the assembled file equals chunk 0, 1, ..., N-1 joined, and the chunk
\* directory is gone afterwards.
C16_AssembledEqualsStream ==
    (up_pc = "assembled" /\ ~up_beyond) =>
        /\ up_final = Stream(total_chunks)
        /\ ~up_dir
        /\ ChunkFiles = {}

\* a split into MaxChunks chunks, with an index re-sent, has been assembled
C16_Witness ==
    /\ up_pc = "assembled"
    /\ ~up_beyond
    /\ up_resent
    /\ total_chunks = MaxChunks
    /\ up_split[1] # up_split[2]

\* C17: whatever indices were saved, is_upload_complete(id, total) is true iff
\* i.chunk exists for every i in 0..total-1, iff get_missing_chunks(id, total) is
\* empty; so assembly is only started with no expected chunk missing.
C17_CompleteIffNoneMissing ==
    /\ is_upload_complete(total_chunks) <=> (\A i \in 0..(total_chunks - 1) : i \in ChunkFiles)
    /\ is_upload_complete(total_chunks) <=> (get_missing_chunks(total_chunks) = {})
    /\ up_pc = "assemble" => get_missing_chunks(total_chunks) = {}

\* ======================================================================
\*  Properties of the PaddleWrapper engines (checked under SpecEngine)
\* ======================================================================

\* C20: at no time are two threads inside the native inference call, whatever
\* languages their workers run for.
C20_OneInferenceAtATime ==
    Cardinality({t \in EngineThreads : epc[t] = "infer"}) <= 1

\* ======================================================================
\*  Properties of the blur geometry (checked under SpecRoi)
\* ======================================================================

\* C21: the rectangle (x, y, w, h) returned by calculate_blur_roi lies inside the
\* frame: 0 <= x <= width, 0 <= y <= height, w >= 0, h >= 0, x + w <= width and
\* y + h <= height.
C21_RoiInsideFrame ==
    roi_pc = "returned" =>
        LET x == roi_result[1]
            y == roi_result[2]
            w == roi_result[3]
            h == roi_result[4]
        IN  /\ 0 <= x /\ x <= roi_args.width
            /\ 0 <= y /\ y <= roi_args.height
            /\ w >= 0 /\ h >= 0
            /\ x + w <= roi_args.width
            /\ y + h <= roi_args.height

\* ======================================================================
\*  Properties of a worker with a backlog (checked under SpecBacklog)
\* ======================================================================

\* C23: while the stop signal is clear, no work item built by the producer is
\* dropped or reordered: the frames waiting in the queue are consecutive, and the
\* newest of them is the frame built just before the one the producer is at (a put
\* that timed out on the full queue is retried with the same item).
C23_NoItemDropped ==
    (spc = "idle" /\ Running /\ ppc \in {"next", "process", "put"}) =>
        /\ \A i \in 1..(Len(frame_queue) - 1) : frame_queue[i + 1] = frame_queue[i] + 1
        /\ frame_queue # <<>> => frame_queue[Len(frame_queue)] = pframe - 1

\* C37: once run() has returned, the producer thread ends (run() stays returned, so
\* "returned implies ended" holds again and again only if the producer does end),
\* and its sentinel put does not find the queue full.
C37_ProducerTerminates ==
    /\ []((kpc = "done" /\ ppc = "sentinel") => Len(frame_queue) < QueueMax)
    /\ []<>(kpc = "done" => ppc \in {"off", "done"})

C37_Witness ==
    /\ kpc = "done"
    /\ ppc = "done"
    /\ Len(frame_queue) = 2
    /\ frame_queue[2] = SENTINEL

\* ======================================================================
\*  Properties of the batching (checked under SpecBatch)
\* ======================================================================

\* the items before position k of the output whose kind is in kinds
Preceding(k, kinds) == {j \in 1..(k - 1) : b_out[j].kind \in kinds}

\* the result of the last item before k with a kind in kinds, ("", 0) without one
ResultOfNearest(k, kinds) ==
    IF Preceding(k, kinds) = {} THEN EmptyResult
    ELSE b_out[CHOOSE j \in Preceding(k, kinds) : \A i \in Preceding(k, kinds) : i <= j].res

\* every item reaches the aggregator once, in arrival order
EachItemOnceInOrder ==
    /\ \A k \in 1..Len(b_out) : b_out[k].id = k
    /\ \A k \in 1..Len(b_pending) : b_pending[k].id = Len(b_out) + k
    /\ Len(b_out) + Len(b_pending) = b_arrived

\* at most one predict_batch per flush, on at most batch_size frames, which are the
\* images of the flush's "img" items in order
OnePredictPerFlush ==
    /\ b_flush.calls <= 1
    /\ Len(b_flush.frames) <= batch_size
    /\ b_flush.frames = [i \in 1..Len(SelectSeq(b_flush.items, LAMBDA it : it.kind = "img"))
                            |-> SelectSeq(b_flush.items, LAMBDA it : it.kind = "img")[i].id]
    /\ (b_flush.calls = 1) <=> (b_flush.frames # <<>>)

\* an "img" item gets the result of its own image, a "nil" item ("", 0)
OwnResult ==
    \A k \in 1..Len(b_out) :
        /\ b_out[k].kind = "img" =>
              b_out[k].res = IF b_out[k].failed THEN EmptyResult
                             ELSE parse_results(RawResult(b_out[k].id))
        /\ b_out[k].kind = "nil" => b_out[k].res = EmptyResult

FlushOut == SubSeq(b_out, Len(b_out) - Len(b_flush.items) + 1, Len(b_out))

\* C40: inference failures are absorbed: predict_batch returns one slot per
\* frame with a nil slot at exactly the frames whose inference failed; in the
\* worker a failed frame, or every frame of a call that raised as a whole, gets
\* ("", 0), every other frame of the batch gets the result of its own image,
\* and the loop goes on: no item is lost and the worker is not left failed.
C40_InferenceFailuresAbsorbed ==
    /\ Len(b_flush.results) = Len(b_flush.frames)
    /\ ~b_flush.raised =>
          \A i \in 1..Len(b_flush.frames) :
              (b_flush.results[i] = NoResult) <=> (b_flush.frames[i] \in b_flush.bad)
    /\ Len(FlushOut) = Len(b_flush.items)
    /\ \A k \in 1..Len(FlushOut) :
          /\ FlushOut[k].id = b_flush.items[k].id
          /\ FlushOut[k].kind = "img" =>
                FlushOut[k].res = IF FlushOut[k].id \in b_flush.bad THEN EmptyResult
                                  ELSE parse_results(RawResult(FlushOut[k].id))
    /\ b_pc \in {"loop", "done"}
    /\ Len(b_out) + Len(b_pending) = b_arrived

\* a flush in which the inference of one frame failed and that of another did
\* not, later a flush whose predict_batch raised as a whole, and the loop is
\* still running
C40_Witness ==
    /\ b_pc = "loop"
    /\ b_flush.raised
    /\ Len(b_out) > Len(b_flush.items)
    /\ \E k \in 1..(Len(b_out) - Len(b_flush.items)) :
          /\ b_out[k].kind = "img" /\ b_out[k].failed
          /\ \E j \in 1..(Len(b_out) - Len(b_flush.items)) :
                b_out[j].kind = "img" /\ ~b_out[j].failed

\* ======================================================================
\*  Liveness of the ProcessManager (checked under SpecLive)
\* ======================================================================

RegistryRequests == {"gsl_acq", "sp_check_acq", "sw_pop_acq", "sp_reg_acq"}

RegistryBodies == {"gsl_body", "sp_check", "sw_pop", "sp_reg"}

\* the registry lock is held only over the four with-blocks, is never requested by
\* its holder, and a session lock is requested by a caller that holds no lock
LockOrder ==
    \A c \in Callers :
        /\ registry_lock = c <=> cpc[c] \in RegistryBodies
        /\ cpc[c] \in RegistryRequests => registry_lock # c
        /\ cpc[c] = "acq_session" => \A l \in LockIds : lock_holder[l] # c

Assemblers ==
    {r \in Requests :
        \/ cu_req[r].pc \in {"asm_open", "asm_read", "asm_list", "asm_remove", "asm_rmdir",
                             "info"}
        \/ cu_req[r].result \in {"metadata", "rejected", "assembly_failed"}}

\* C32: at most one request observes completion and runs assemble_file, no
\* assemble_file fails, and once every request has returned exactly one has
\* assembled the file and every other one has returned a chunk receipt.
C32_AssembledExactlyOnce ==
    /\ Cardinality(Assemblers) <= 1
    /\ \A r \in Requests : cu_req[r].result # "assembly_failed"
    /\ (\A r \in Requests : cu_req[r].pc = "done") =>
           /\ Cardinality(Assemblers) = 1
           /\ \A r \in Requests \ Assemblers : cu_req[r].result = "receipt"

\* C33: no is_upload_complete, get_missing_chunks or assemble_file call takes a chunk
\* file whose data is only partly written for a present chunk.
C33_SaveChunkAtomic == cu_observed = {}

\* ======================================================================
\*  Properties of the render plan (checked under SpecPlan)
\* ======================================================================

\* the frame indices looked at: from below 0 to beyond the latest cue at 25 fps
PlanFrames == -2 .. (Trunc(17 * 25, TimeUnit) + 2)

Floor(n, d) == n \div d

IsBlankText(text) == \A k \in 1..Len(text) : text[k] \in Whitespace

\* the cues of the list that cover frame f when int() is read as Round
CoveringCues(Round(_, _), f) ==
    {i \in 1..Len(pl_in.subs) :
        /\ ~IsBlankText(pl_in.subs[i].text)
        /\ Max(0, Round(pl_in.subs[i].start * FpsOrDefault(pl_in.fps), TimeUnit) - 1) <= f
        /\ f < Min(pl_in.total_frames + 5,
                   Round(pl_in.subs[i].end * FpsOrDefault(pl_in.fps), TimeUnit) + 1)}

LatestCue(S) == CHOOSE i \in S : \A j \in S : j <= i

PlanIs(Round(_, _)) ==
    /\ DOMAIN frame_blur_map = {f \in PlanFrames : CoveringCues(Round, f) # {}}
    /\ \A f \in DOMAIN frame_blur_map :
          CoveringCues(Round, f) # {} =>
              frame_blur_map[f] = CueRoi(pl_in.subs[LatestCue(CoveringCues(Round, f))])

PlanBuilt == pl_pc.main = "start"

\* C39 (as stated): the plan contains f iff some cue with non-blank text has
\* max(0, floor(start*fps) - 1) <= f < min(total_frames + 5, floor(end*fps) + 1),
\* and the ROI stored for f is that of the latest such cue.
C39_PlanByFloor == PlanBuilt => PlanIs(Floor)

\* C39: the plan contains frame index f iff some cue with non-blank text has
\* max(0, int(start*fps) - 1) <= f < min(total_frames + 5, int(end*fps) + 1),
\* int() truncating toward zero (which is floor for times that are not
\* negative); the ROI stored for f is the one computed from the stripped text
\* of the latest such cue in the list; blank cues add no frame.
C39_PlanByTruncation == PlanBuilt => PlanIs(Trunc)

\* two cues with different ROIs cover one frame, and a blank cue covers a frame
\* that stays out of the plan
C39_Witness ==
    /\ PlanBuilt
    /\ Len(pl_in.subs) = 2
    /\ \E f \in DOMAIN frame_blur_map :
          /\ CoveringCues(Trunc, f) = {1, 2}
          /\ CueRoi(pl_in.subs[1]) # CueRoi(pl_in.subs[2])
          /\ frame_blur_map[f] = CueRoi(pl_in.subs[2])
    /\ \E g \in PlanFrames \ DOMAIN frame_blur_map : g >= 0 /\ g < pl_in.total_frames

\* ======================================================================
\*  Properties of the frame pipeline (checked under SpecPipeline)
\* ======================================================================

\* no stop was requested and no thread has failed
RanClean == ~pl_stop_event /\ \A t \in PipeThreads : pl_pc[t] # "failed"

\* C38: in a render without stop and without error the writer writes every
\* frame the reader read exactly once and in reader order, the end marker
\* reaches the writer only after the last frame, a frame whose index is not in
\* the render plan is written as the capture gave it, and with an empty
\* subtitle list every frame is.
C38_FramesOnceInOrder ==
    RanClean =>
        /\ \A k \in 1..Len(pl_written) : pl_written[k].idx = k - 1
        /\ pl_pc.main \in {"finally", "written"} => Len(pl_written) = frame_idx
        /\ \A k \in 1..Len(write_queue) :
              write_queue[k] = PipeEnd =>
                  /\ k = Len(write_queue)
                  /\ pl_pc.reader = "ended"
                  /\ Len(pl_written) + k - 1 = frame_idx
        /\ pl_pc.writer = "ended" =>
              Len(pl_written) = frame_idx /\ frame_idx = pl_in.nframes
        /\ \A k \in 1..Len(pl_written) :
              pl_written[k].idx \notin DOMAIN frame_blur_map =>
                  pl_written[k] = Frame(pl_written[k].idx)
        /\ pl_in.subs = <<>> => \A k \in 1..Len(pl_written) : pl_written[k] = Frame(k - 1)

\* a render of three frames has ended: the first was blurred, the third was not planned
C38_Witness ==
    /\ RanClean
    /\ pl_pc.main = "written"
    /\ Len(pl_written) = MaxPipeFrames
    /\ pl_written[1].blur # <<>>
    /\ pl_written[MaxPipeFrames].idx \notin DOMAIN frame_blur_map
    /\ pl_written[MaxPipeFrames] = Frame(MaxPipeFrames - 1)

====
